---- MODULE Spec2Model ----
(***************************************************************************)
(* Model of the AI response service of the Imacall backend                 *)
(* (backend/app/services/ai_service.py), its persisted provider            *)
(* configuration (backend/app/crud/config.py), the admin configuration     *)
(* routes (backend/app/api/routes/config.py) and the message-send route    *)
(* (backend/app/api/routes/conversations.py).                              *)
(*                                                                         *)
(* A Python str is modelled as a sequence of pieces (strings); the empty   *)
(* str is <<>>, a piece " " is a whitespace character, and an f-string     *)
(* that interpolates the character's name has the name as a piece of its   *)
(* own.  The Python value None is the distinguished sequence None.         *)
(***************************************************************************)
EXTENDS Integers, Sequences, FiniteSets, TLC

VARIABLES
    settings,                  \* app.core.config.settings (process configuration)
    GEMINI_AVAILABLE,          \* ai_service.GEMINI_AVAILABLE (google-genai importable)
    ai_provider_config,        \* rows of the table ai_provider_config
    provider_instances_cache,  \* ai_service._provider_instances_cache
    conversation,              \* the row of the table conversation ({} before it is started)
    messages,                  \* rows of the table message of the one conversation
    character_table,           \* rows of the table character
    db_calls,                  \* the concurrent calls of _get_active_provider_name_from_db
    threads,                   \* the concurrent calls of get_ai_response and set_active_provider
    constructed,               \* the provider objects constructed since the cache was cleared
    active_connections,        \* conversations.manager.active_connections
    websockets,                \* the WebSocket connections and what each has received
    last                       \* the last completed operation, its inputs and its result

vars == <<settings, GEMINI_AVAILABLE, ai_provider_config, provider_instances_cache,
          conversation, messages, character_table, db_calls, threads, constructed,
          active_connections, websockets, last>>

\* The state of the concurrent calls of the service
thread_vars == <<threads, constructed>>

\* The state of the connection manager
socket_vars == <<active_connections, websockets>>

-----------------------------------------------------------------------------
(* Bounds of the model *)

MaxMessages == 4       \* rows of the message table in one behaviour
MaxHistory == 1        \* length of the short histories handed to get_ai_response
MaxFormatLen == 3      \* length of the histories handed to the history formatting
MaxTruncLen == 60      \* length of the histories handed to the truncation
NumCallers == 2        \* concurrent calls of _get_active_provider_name_from_db
NumSockets == 3        \* WebSocket connections handed to the connection manager
NumThreads == 3        \* concurrent calls of get_ai_response and set_active_provider

-----------------------------------------------------------------------------
(* Python values *)

None == <<"<None>">>

\* Python truthiness of a str | None
Truthy(s) == s # None /\ s # <<>>

\* Python `a or b`
Or(a, b) == IF Truthy(a) THEN a ELSE b

RECURSIVE LStrip(_)
LStrip(s) == IF s # <<>> /\ Head(s) = " " THEN LStrip(Tail(s)) ELSE s

RECURSIVE RStrip(_)
RStrip(s) == IF s # <<>> /\ s[Len(s)] = " " THEN RStrip(SubSeq(s, 1, Len(s) - 1)) ELSE s

\* str.strip()
Strip(s) == RStrip(LStrip(s))

\* The str has no character at all
IsEmptyStr(s) == \A i \in DOMAIN s : s[i] = ""

\* The str holds the character's name
Mentions(s, name) == \E i \in DOMAIN s : s[i] = name

-----------------------------------------------------------------------------
(* Provider registry *)

_DEFAULT_PROVIDER_NAME == "gemini"

OpenRouterNames == {"deepseek-r1", "sarvam", "deepseek-chat", "qwen3", "gemma3"}

SUPPORTED_PROVIDERS ==
    ("gemini" :> "GeminiProvider") @@
    ("openai" :> "OpenAIProvider") @@
    ("claude" :> "ClaudeProvider") @@
    ("fptai" :> "FPTAIProvider") @@
    ("deepseek-r1" :> "DeepSeekR1Provider") @@
    ("sarvam" :> "SarvamProvider") @@
    ("deepseek-chat" :> "DeepSeekChatProvider") @@
    ("qwen3" :> "Qwen3Provider") @@
    ("gemma3" :> "Gemma3Provider")

\* The classes that inherit BaseOpenRouterProvider.get_response
OpenRouterClasses == {SUPPORTED_PROVIDERS[n] : n \in OpenRouterNames}

\* A name that is not a key of SUPPORTED_PROVIDERS (the retired "old_openrouter")
UnsupportedName == "old_openrouter"

-----------------------------------------------------------------------------
(* Persisted provider configuration: backend/app/crud/config.py *)

\* session.get(AIProviderConfig, 1): the rows with primary key 1 ({} is None)
get_ai_provider_config(table) == {r \in table : r.id = 1}

\* set_ai_provider_config that leaves an existing row as it is
set_ai_provider_config_insert_only(table, provider_name) ==
    IF {r \in table : r.id = 1} # {} THEN table
    ELSE table \cup {[id |-> 1, active_provider_name |-> provider_name]}

\* The table after set_ai_provider_config(session, provider_name) has committed
set_ai_provider_config(table, provider_name) ==
    LET config == {r \in table : r.id = 1}
    IN  IF config # {}
        THEN (table \ config) \cup
             {[r EXCEPT !.active_provider_name = provider_name] : r \in config}
        ELSE table \cup {[id |-> 1, active_provider_name |-> provider_name]}

-----------------------------------------------------------------------------
(* Provider selection: backend/app/services/ai_service.py *)

\* The loop over [settings.DEFAULT_AI_PROVIDER, _DEFAULT_PROVIDER_NAME]: every
\* supported candidate overwrites default_to_set, the loop has no break
DefaultToSet(cfg) ==
    LET candidates == <<cfg.DEFAULT_AI_PROVIDER, _DEFAULT_PROVIDER_NAME>>
        step(acc, c) == IF c \in DOMAIN SUPPORTED_PROVIDERS THEN c ELSE acc
    IN  step(step(_DEFAULT_PROVIDER_NAME, candidates[1]), candidates[2])

\* _get_active_provider_name_from_db(session): the name returned, the table
\* afterwards and whether set_ai_provider_config was called
get_active_provider_name_from_db(table, cfg) ==
    LET config == get_ai_provider_config(table)
    IN  IF config # {} /\ \A r \in config : r.active_provider_name \in DOMAIN SUPPORTED_PROVIDERS
        THEN [ret |-> (CHOOSE r \in config : TRUE).active_provider_name,
              table |-> table, wrote |-> FALSE]
        ELSE [ret |-> DefaultToSet(cfg),
              table |-> set_ai_provider_config(table, DefaultToSet(cfg)),
              wrote |-> TRUE]

\* get_available_providers reading the OpenAI key for the OpenRouter aliases
get_available_providers_wrong_key(cfg) ==
    (IF Truthy(cfg.GEMINI_API_KEY) THEN {"gemini"} ELSE {}) \cup
    (IF Truthy(cfg.OPENAI_API_KEY) THEN {"openai"} \cup OpenRouterNames ELSE {}) \cup
    (IF Truthy(cfg.ANTHROPIC_API_KEY) THEN {"claude"} ELSE {}) \cup
    (IF Truthy(cfg.FPT_AI_API_KEY) THEN {"fptai"} ELSE {})

\* get_available_providers(): the names whose key is truthy in settings; the
\* code returns them as a sorted list without duplicates
get_available_providers(cfg) ==
    (IF Truthy(cfg.GEMINI_API_KEY) THEN {"gemini"} ELSE {}) \cup
    (IF Truthy(cfg.OPENAI_API_KEY) THEN {"openai"} ELSE {}) \cup
    (IF Truthy(cfg.OPENROUTER_API_KEY) THEN OpenRouterNames ELSE {}) \cup
    (IF Truthy(cfg.ANTHROPIC_API_KEY) THEN {"claude"} ELSE {}) \cup
    (IF Truthy(cfg.FPT_AI_API_KEY) THEN {"fptai"} ELSE {})

\* The supported names in the order of sorted()
SortedNames ==
    <<"claude", "deepseek-chat", "deepseek-r1", "fptai", "gemini", "gemma3",
      "openai", "qwen3", "sarvam">>

\* sorted(list(set(available))): the list get_available_providers returns
sorted_available(available) ==
    LET keep(n) == n \in available
    IN  SelectSeq(SortedNames, keep)

\* The api_key get_ai_provider hands to the constructor of the provider class
ProviderApiKey(name, cfg) ==
    CASE name = "gemini" -> cfg.GEMINI_API_KEY
      [] name = "openai" -> cfg.OPENAI_API_KEY
      [] name \in OpenRouterNames -> cfg.OPENROUTER_API_KEY
      [] name = "claude" -> cfg.ANTHROPIC_API_KEY
      [] name = "fptai" -> cfg.FPT_AI_API_KEY
      [] OTHER -> None

\* provider_class(**constructor_args): the exception the constructor raises
\* (None when it returns).  GeminiProvider falls back to settings.GEMINI_API_KEY
\* and needs the google-genai library; OpenAIProvider, BaseOpenRouterProvider
\* and FPTAIProvider raise ValueError without a key; ClaudeProvider only logs
\* a warning and builds Anthropic(api_key=None), which the installed anthropic
\* library may accept or refuse (anthropic_refuses).
ConstructorRaises(name, api_key, cfg, gemini_available, anthropic_refuses) ==
    CASE name = "gemini" ->
            IF ~gemini_available THEN <<"ValueError">>
            ELSE IF ~Truthy(Or(api_key, cfg.GEMINI_API_KEY)) THEN <<"ValueError">>
            ELSE None
      [] name = "claude" ->
            IF ~Truthy(api_key) /\ anthropic_refuses THEN <<"AnthropicError">> ELSE None
      [] OTHER ->
            IF ~Truthy(api_key) THEN <<"ValueError">> ELSE None

\* The provider object a successful constructor leaves behind
NewInstance(name, api_key, cfg) ==
    [cls |-> SUPPORTED_PROVIDERS[name],
     api_key |-> IF name = "gemini" THEN Or(api_key, cfg.GEMINI_API_KEY) ELSE api_key]

\* get_ai_provider(session): resolves the active name (which may write the
\* table), and constructs and caches an instance when the cache has none.
\* raised is the exception re-raised to the caller, None when it returns.
get_ai_provider(table, cache, cfg, gemini_available, anthropic_refuses) ==
    LET active == get_active_provider_name_from_db(table, cfg)
        unsupported == active.ret \notin DOMAIN SUPPORTED_PROVIDERS
        name == IF active.ret \notin DOMAIN cache /\ unsupported
                THEN _DEFAULT_PROVIDER_NAME ELSE active.ret
        table2 == IF active.ret \notin DOMAIN cache /\ unsupported
                  THEN set_ai_provider_config(active.table, name) ELSE active.table
        api_key == ProviderApiKey(name, cfg)
        exc == ConstructorRaises(name, api_key, cfg, gemini_available, anthropic_refuses)
    IN  IF name \in DOMAIN cache
        THEN [raised |-> None, name |-> name, provider |-> cache[name],
              table |-> table2, cache |-> cache, constructed |-> FALSE]
        ELSE IF exc # None
        THEN [raised |-> exc, name |-> name, provider |-> [cls |-> "", api_key |-> None],
              table |-> table2, cache |-> cache, constructed |-> FALSE]
        ELSE [raised |-> None, name |-> name,
              provider |-> NewInstance(name, api_key, cfg),
              table |-> table2,
              cache |-> (name :> NewInstance(name, api_key, cfg)) @@ cache,
              constructed |-> TRUE]

-----------------------------------------------------------------------------
(* History handling: backend/app/services/ai_service.py *)

\* A history message is [sender, len]: its sender and len(msg.content)
RECURSIVE SumLen(_)
SumLen(history) == IF history = <<>> THEN 0 ELSE Head(history).len + SumLen(Tail(history))

\* _truncate_history_if_needed whose slice keeps exactly num_to_keep messages
truncate_history_keeps_exactly(history, max_tokens) ==
    IF SumLen(history) \div 4 > max_tokens
    THEN SubSeq(history, Len(history) - ((Len(history) * 3) \div 4) + 1, Len(history))
    ELSE history

\* _truncate_history_if_needed(history, max_tokens); history[-0:] is the whole list
truncate_history_if_needed(history, max_tokens) ==
    LET current_tokens == SumLen(history) \div 4
        num_to_keep == (Len(history) * 3) \div 4
    IN  IF current_tokens > max_tokens
        THEN IF num_to_keep = 0 THEN history
             ELSE SubSeq(history, Len(history) - num_to_keep + 1, Len(history))
        ELSE history

GeminiMaxTokens == 30000
OpenAIMaxTokens == 160000
OpenRouterMaxTokens == 8000

\* next((msg.content for msg in reversed(history) if msg.sender == USER), None)
\* is truthy: the most recent user message exists and its content is not ""
LastUserMessageTruthy(history) ==
    LET users == {i \in DOMAIN history : history[i].sender = "user"}
    IN  users # {} /\ history[CHOOSE i \in users : \A j \in users : j <= i].len > 0

-----------------------------------------------------------------------------
(* The provider classes' get_response.  outcome is what the one network call
   does: [kind, content, status] with kind "ok" (a 200 answer carrying
   content), "timeout", "connection", "rate_limit", "status" (an error status)
   or "exception".  The result is [raised, text, calls, sent]: the exception
   that leaves get_response (None when it returns), the str returned, the
   number of network calls made and the history sent. *)

Returned(text, calls, sent) == [raised |-> None, text |-> text, calls |-> calls, sent |-> sent]

Raised(exc, calls, sent) == [raised |-> exc, text |-> None, calls |-> calls, sent |-> sent]

\* GeminiProvider.get_response returning character.fallback_response alone
GeminiProvider_get_response_no_default(self, character, history, outcome) ==
    LET truncated_history == truncate_history_if_needed(history, GeminiMaxTokens)
    IN  IF outcome.kind = "ok" /\ Truthy(outcome.content)
        THEN Returned(Strip(outcome.content), 1, truncated_history)
        ELSE Returned(IF character.fallback_response = None THEN <<>>
                      ELSE character.fallback_response, 1, truncated_history)

\* GeminiProvider.get_response: every failure of generate_content is an exception
GeminiProvider_get_response(self, character, history, outcome) ==
    LET truncated_history == truncate_history_if_needed(history, GeminiMaxTokens)
        fallback == Or(character.fallback_response,
                       <<"*", character.name, " seems momentarily distracted*">>)
    IN  IF outcome.kind = "ok"
        THEN IF Truthy(outcome.content)
             THEN Returned(Strip(outcome.content), 1, truncated_history)
             ELSE Returned(fallback, 1, truncated_history)
        ELSE Returned(fallback, 1, truncated_history)

\* OpenAIProvider.get_response without its last handler: the exception leaves
OpenAIProvider_no_except_Exception(sent) == Raised(<<"TypeError">>, 1, sent)

\* The last handler of OpenAIProvider.get_response, `except Exception`
OpenAIProvider_except_Exception(sent) ==
    Returned(<<"(OOC: My apologies, a cosmic ray seems to have hit my thinking circuits!)">>,
             1, sent)

\* OpenAIProvider.get_response: the f-string of logger.debug slices
\* response_text, so a None content raises TypeError inside the try
OpenAIProvider_get_response(self, character, history, outcome) ==
    LET truncated_history == truncate_history_if_needed(history, OpenAIMaxTokens)
    IN  IF ~Truthy(self.api_key)
        THEN Returned(<<"(OOC: Configuration error - API key missing for ", character.name, ")">>,
                      0, <<>>)
        ELSE CASE outcome.kind = "ok" ->
                    IF outcome.content = None
                    THEN OpenAIProvider_except_Exception(truncated_history)
                    ELSE IF Truthy(outcome.content)
                    THEN Returned(Strip(outcome.content), 1, truncated_history)
                    ELSE Returned(<<"(OOC: ", character.name, " received an empty response.)">>,
                                  1, truncated_history)
               [] outcome.kind = "timeout" ->
                    Returned(<<"(OOC: Sorry, my thoughts got lost in hyperspace... timed out!)">>,
                             1, truncated_history)
               [] outcome.kind = "connection" ->
                    Returned(<<"(OOC: Hmm, can't seem to connect to the ethereal plane of ideas right now.)">>,
                             1, truncated_history)
               [] outcome.kind = "rate_limit" ->
                    Returned(<<"(OOC: Wooah, too many ideas flowing! I need a moment to catch my breath.)">>,
                             1, truncated_history)
               [] outcome.kind = "status" ->
                    Returned(<<"(OOC: Uh oh, the universal translator seems to be on the fritz. Status: ",
                               outcome.status, ")">>, 1, truncated_history)
               [] OTHER -> OpenAIProvider_except_Exception(truncated_history)

\* BaseOpenRouterProvider.get_response, inherited by the five OpenRouter classes
BaseOpenRouterProvider_get_response(self, character, history, outcome) ==
    LET truncated_history == truncate_history_if_needed(history, OpenRouterMaxTokens)
        fb == character.fallback_response
    IN  IF ~Truthy(self.api_key)
        THEN Returned(Or(fb, <<"(OOC: Configuration error - API key missing for ",
                               character.name, ")">>), 0, <<>>)
        ELSE CASE outcome.kind = "ok" ->
                    IF Truthy(outcome.content)
                    THEN Returned(Strip(outcome.content), 1, truncated_history)
                    ELSE Returned(Or(fb, <<"(OOC: ", character.name, " received an empty response.)">>),
                                  1, truncated_history)
               [] outcome.kind = "timeout" ->
                    Returned(Or(fb, <<"(OOC: Sorry, my thoughts got lost in hyperspace... timed out!)">>),
                             1, truncated_history)
               [] outcome.kind = "connection" ->
                    Returned(Or(fb, <<"(OOC: Hmm, can't seem to connect to the ethereal plane of ideas right now.)">>),
                             1, truncated_history)
               [] outcome.kind = "rate_limit" ->
                    Returned(Or(fb, <<"(OOC: Wooah, too many ideas flowing! I need a moment to catch my breath.)">>),
                             1, truncated_history)
               [] outcome.kind = "status" ->
                    Returned(Or(fb, <<"(OOC: Uh oh, the universal translator seems to be on the fritz. Status: ",
                                      outcome.status, ")">>), 1, truncated_history)
               [] OTHER ->
                    Returned(Or(fb, <<"(OOC: My apologies, a cosmic ray seems to have hit my thinking circuits!)">>),
                             1, truncated_history)

\* ClaudeProvider.get_response
ClaudeProvider_get_response(self, character, history, outcome) ==
    Raised(<<"NotImplementedError">>, 0, <<>>)

\* FPTAIProvider.get_response that posts a second time when the first post fails
FPTAIProvider_get_response_posts_again(self, character, history, outcome) ==
    LET name == character.name
    IN  IF ~LastUserMessageTruthy(history)
        THEN Returned(Or(character.greeting_message, <<"Hi! I'm ", name, ".">>), 0, <<>>)
        ELSE IF outcome.kind = "ok" /\ Truthy(outcome.content)
        THEN Returned(Strip(outcome.content), 1, history)
        ELSE Returned(<<"(OOC: Sorry, I encountered an error trying to respond as ", name, ".)">>,
                      2, history)

\* FPTAIProvider.get_response: requests.post raises on a timeout, a connection
\* error or an unexpected failure and returns a response object otherwise; a
\* rate limit arrives as status 429
FPTAIProvider_get_response(self, character, history, outcome) ==
    LET name == character.name
    IN  IF ~LastUserMessageTruthy(history)
        THEN Returned(Or(character.greeting_message, <<"Hi! I'm ", name, ".">>), 0, <<>>)
        ELSE CASE outcome.kind \in {"status", "rate_limit"} ->
                    Returned(<<"(OOC: Sorry, I encountered an error trying to respond as ", name,
                               ". API returned status ", outcome.status, ".)">>, 1, history)
               [] outcome.kind = "ok" ->
                    IF Truthy(outcome.content)
                    THEN Returned(Strip(outcome.content), 1, history)
                    ELSE Returned(<<"(OOC: Sorry, I received an empty response when trying to respond as ",
                                    name, ".)">>, 1, history)
               [] OTHER ->
                    Returned(<<"(OOC: Sorry, I encountered an error trying to respond as ", name, ".)">>,
                             1, history)

\* provider.get_response(character=..., history=...) dispatched on the class
Provider_get_response(self, character, history, outcome) ==
    CASE self.cls = "GeminiProvider" -> GeminiProvider_get_response(self, character, history, outcome)
      [] self.cls = "OpenAIProvider" -> OpenAIProvider_get_response(self, character, history, outcome)
      [] self.cls \in OpenRouterClasses ->
            BaseOpenRouterProvider_get_response(self, character, history, outcome)
      [] self.cls = "ClaudeProvider" -> ClaudeProvider_get_response(self, character, history, outcome)
      [] self.cls = "FPTAIProvider" -> FPTAIProvider_get_response(self, character, history, outcome)

\* get_ai_response without the try around get_ai_provider
get_ai_response_provider_reraised(character) == Raised(<<"ValueError">>, 0, <<>>)

\* The except clause of get_ai_response around get_ai_provider
get_ai_response_provider_failed(character) ==
    Returned(Or(character.fallback_response,
                <<"I'm having trouble reaching my AI brain at the moment.">>), 0, <<>>)

\* get_ai_response(*, session, character, history).  passed is the set of
\* keyword arguments of the call: session is keyword-only and has no default,
\* so a call without it raises TypeError before the body runs.  p is the
\* result of get_ai_provider(session).
get_ai_response(passed, p, character, history, outcome) ==
    IF "session" \notin passed
    THEN Raised(<<"TypeError">>, 0, <<>>)
    ELSE IF p.raised # None
    THEN get_ai_response_provider_failed(character)
    ELSE Provider_get_response(p.provider, character, history, outcome)

-----------------------------------------------------------------------------
(* Prompt and history formatting: backend/app/services/ai_service.py.  A
   prompt is the sequence of the lines that "\n".join puts together; a line is
   a str (a sequence of pieces). *)

\* f"{value}": None is rendered as the text None
FStr(value) == IF value = None THEN <<"None">> ELSE value

\* filter(None, prompt_parts): the parts that are not the empty str
filter_None(prompt_parts) ==
    LET keep(part) == ~IsEmptyStr(part)
    IN  SelectSeq(prompt_parts, keep)

\* _build_system_prompt(character) of AIProvider and of BaseOpenRouterProvider
build_system_prompt(character) ==
    LET prompt_parts ==
          << <<"You are ", character.name, ", a character with the following traits:">>,
             <<"- Personality: ">> \o FStr(character.personality_traits),
             <<"- Writing Style: ">> \o FStr(character.writing_style),
             <<"- Background: ">> \o FStr(character.background),
             <<"- Knowledge Scope: ">> \o FStr(character.knowledge_scope),
             <<"- Quirks: ">> \o FStr(character.quirks),
             <<"- Emotional Range: ">> \o FStr(character.emotional_range),
             <<"- Scenario: ">> \o FStr(character.scenario),
             <<"- Language: ">> \o FStr(character.language),
             <<"Please embody this character fully in your responses. Be engaging and stay in character.">> >>
    IN  filter_None(prompt_parts)

\* AIProvider._format_history: the roles of the Gemini family
format_history(history) ==
    [i \in DOMAIN history |->
        [role |-> IF history[i].sender = "user" THEN "user" ELSE "model",
         content |-> history[i].content]]

\* _format_history_for_openai that appends at the front
format_history_for_openai_reversed(history) ==
    [i \in DOMAIN history |->
        [role |-> IF history[Len(history) + 1 - i].sender = "ai" THEN "assistant" ELSE "user",
         content |-> history[Len(history) + 1 - i].content]]

\* _format_history_for_openai of OpenAIProvider and BaseOpenRouterProvider,
\* and FPTAIProvider._format_history
format_history_for_openai(history) ==
    [i \in DOMAIN history |->
        [role |-> IF history[i].sender = "ai" THEN "assistant" ELSE "user",
         content |-> history[i].content]]

\* The loop of GeminiProvider.get_response: f"{role_prefix} {msg.content}"
gemini_conversation_parts(history) ==
    [i \in DOMAIN history |->
        [role |-> IF history[i].sender = "user" THEN "User:" ELSE "Assistant:",
         content |-> history[i].content]]

\* The history formatting of a provider family
FormatFamilies == {"format_history", "format_history_for_openai", "gemini_inline"}

Format(family, history) ==
    CASE family = "format_history" -> format_history(history)
      [] family = "format_history_for_openai" -> format_history_for_openai(history)
      [] family = "gemini_inline" -> gemini_conversation_parts(history)

-----------------------------------------------------------------------------
(* Inputs *)

KeyValues == {None, <<"sk-key">>}

DefaultProviderValues == {"openai", "no-such-provider"}

ProviderNameInputs == DOMAIN SUPPORTED_PROVIDERS \cup {UnsupportedName}

CharacterNames == {"Rex"}

Characters ==
    [name : CharacterNames,
     fallback_response : {None, <<>>, <<"Rex looks confused.">>},
     greeting_message : {None, <<"Hello, I am Rex!">>}]

Senders == {"user", "ai"}

RECURSIVE SeqsUpTo(_, _)
SeqsUpTo(S, n) ==
    IF n = 0 THEN {<<>>}
    ELSE SeqsUpTo(S, n - 1) \cup
         {Append(s, x) : s \in {t \in SeqsUpTo(S, n - 1) : Len(t) = n - 1}, x \in S}

\* Four messages of 200000 characters each: over every provider's budget
LongHistory ==
    <<[sender |-> "user", len |-> 200000], [sender |-> "ai", len |-> 200000],
      [sender |-> "user", len |-> 200000], [sender |-> "ai", len |-> 200000]>>

Histories == SeqsUpTo([sender : Senders, len : {2}], MaxHistory) \cup {LongHistory}

Contents == {None, <<>>, <<" ">>, <<"Hello">>, <<" ", "Hello", " ">>}

Outcomes ==
    {[kind |-> "ok", content |-> c, status |-> "200"] : c \in Contents} \cup
    {[kind |-> "timeout", content |-> None, status |-> ""],
     [kind |-> "connection", content |-> None, status |-> ""],
     [kind |-> "rate_limit", content |-> None, status |-> "429"],
     [kind |-> "status", content |-> None, status |-> "500"],
     [kind |-> "exception", content |-> None, status |-> ""]}

-----------------------------------------------------------------------------
(* The state after the module has been loaded *)

\* No request is being answered
Idle == [op |-> "idle"]

Init ==
    /\ settings \in [GEMINI_API_KEY : KeyValues, OPENAI_API_KEY : KeyValues,
                     OPENROUTER_API_KEY : KeyValues, ANTHROPIC_API_KEY : KeyValues,
                     FPT_AI_API_KEY : KeyValues, DEFAULT_AI_PROVIDER : DefaultProviderValues]
    /\ GEMINI_AVAILABLE \in BOOLEAN
    /\ ai_provider_config \in
          {{}} \cup {{[id |-> 1, active_provider_name |-> n]} : n \in ProviderNameInputs}
    /\ provider_instances_cache = <<>>
    /\ conversation = {}
    /\ messages = <<>>
    /\ character_table = {}
    /\ db_calls = <<>>
    /\ threads = <<>>
    /\ constructed = <<>>
    /\ active_connections = <<>>
    /\ websockets = <<>>
    /\ last = Idle

-----------------------------------------------------------------------------
(* Operations of the service and of the admin configuration routes *)

\* set_active_provider that persists and clears before it looks at the keys
set_active_provider_checks_late(name, table, cache, cfg) ==
    IF name \notin DOMAIN SUPPORTED_PROVIDERS
    THEN [raised |-> <<"ValueError">>, table |-> table, cache |-> cache]
    ELSE [raised |-> IF name \notin get_available_providers(cfg) THEN <<"ValueError">> ELSE None,
          table |-> set_ai_provider_config(table, name), cache |-> <<>>]

\* set_active_provider that leaves the cache as it is
set_active_provider_keeps_cache(name, table, cache, cfg) ==
    IF name \notin DOMAIN SUPPORTED_PROVIDERS \/ name \notin get_available_providers(cfg)
    THEN [raised |-> <<"ValueError">>, table |-> table, cache |-> cache]
    ELSE [raised |-> None, table |-> set_ai_provider_config(table, name), cache |-> cache]

\* set_active_provider(name, session): the exception raised (None when it
\* returns), the table and the cache afterwards
set_active_provider(name, table, cache, cfg) ==
    IF name \notin DOMAIN SUPPORTED_PROVIDERS
    THEN [raised |-> <<"ValueError">>, table |-> table, cache |-> cache]
    ELSE IF name \notin get_available_providers(cfg)
    THEN [raised |-> <<"ValueError">>, table |-> table, cache |-> cache]
    ELSE [raised |-> None, table |-> set_ai_provider_config(table, name), cache |-> <<>>]

\* PUT /config/ai/providers/active: ValueError is answered with 400.  On
\* success the route returns Message(message=...) under response_model=Message,
\* and app.models defines Message twice (the generic message at line 109, the
\* message table at line 316): the answer is 200, or 500 when the response
\* does not validate, after the write has been committed either way.
SetActiveAIProvider(provider_name, success_status) ==
    LET r == set_active_provider(provider_name, ai_provider_config,
                                 provider_instances_cache, settings)
    IN  /\ last = Idle
        /\ r.raised # None => success_status = 200
        /\ ai_provider_config' = r.table
        /\ provider_instances_cache' = r.cache
        /\ last' = [op |-> "set_active_provider", name |-> provider_name,
                    raised |-> r.raised,
                    status |-> IF r.raised = <<"ValueError">> THEN 400 ELSE success_status,
                    pre_table |-> ai_provider_config,
                    pre_cache |-> provider_instances_cache]
        /\ UNCHANGED <<settings, GEMINI_AVAILABLE, conversation, messages, character_table, db_calls, thread_vars,
                   socket_vars>>

\* GET /config/ai/providers/active: get_active_ai_provider_name_from_service
GetActiveAIProvider ==
    LET r == get_active_provider_name_from_db(ai_provider_config, settings)
    IN  /\ last = Idle
        /\ ai_provider_config' = r.table
        /\ last' = [op |-> "get_active_provider_name", ret |-> r.ret, wrote |-> r.wrote,
                    pre_table |-> ai_provider_config]
        /\ UNCHANGED <<settings, GEMINI_AVAILABLE, provider_instances_cache, conversation, messages, character_table, db_calls, thread_vars,
                   socket_vars>>

\* GET /config/ai/providers/available
GetAvailableAIProviders ==
    /\ last = Idle
    /\ last' = [op |-> "get_available_providers", ret |-> get_available_providers(settings),
                list |-> sorted_available(get_available_providers(settings)),
                pre_table |-> ai_provider_config, pre_cache |-> provider_instances_cache]
    /\ UNCHANGED <<settings, GEMINI_AVAILABLE, ai_provider_config, provider_instances_cache,
                   conversation, messages, character_table, db_calls, thread_vars,
                   socket_vars>>

\* get_ai_response(session=session, character=character, history=history)
GetAIResponse(character, history, outcome, anthropic_refuses) ==
    LET p == get_ai_provider(ai_provider_config, provider_instances_cache,
                             settings, GEMINI_AVAILABLE, anthropic_refuses)
        r == get_ai_response({"session", "character", "history"}, p, character, history, outcome)
    IN  /\ last = Idle
        /\ ai_provider_config' = p.table
        /\ provider_instances_cache' = p.cache
        /\ last' = [op |-> "get_ai_response", character |-> character, history |-> history,
                    outcome |-> IF r.calls > 0 THEN outcome
                                ELSE [kind |-> "none", content |-> None, status |-> ""],
                    name |-> p.name, provider_raised |-> p.raised, provider |-> p.provider,
                    constructed |-> p.constructed,
                    raised |-> r.raised, text |-> r.text, calls |-> r.calls, sent |-> r.sent,
                    pre_cache |-> provider_instances_cache]
        /\ UNCHANGED <<settings, GEMINI_AVAILABLE, conversation, messages, character_table, db_calls, thread_vars,
                   socket_vars>>

\* The answer has been handed to the caller; the request is over
Return ==
    /\ last # Idle
    /\ last' = Idle
    /\ UNCHANGED <<settings, GEMINI_AVAILABLE, ai_provider_config, provider_instances_cache,
                   conversation, messages, character_table, db_calls, thread_vars,
                   socket_vars>>

-----------------------------------------------------------------------------
(* Conversation routes: backend/app/api/routes/conversations.py *)

Users == {"alice", "bob"}

UserContents == {<<"hi">>}

HistoryLimit == 20

RECURSIVE StrLen(_)
\* len(content)
StrLen(s) == IF s = <<>> THEN 0 ELSE Len(Head(s)) + StrLen(Tail(s))

\* crud.conversations.create_message: the stored row gets a server-assigned id
create_message(rows, content, sender) ==
    Append(rows, [id |-> Len(rows) + 1, sender |-> sender, content |-> content])

\* crud.conversations.get_conversation_messages(limit=...): the most recent
\* limit messages, oldest first, as the service reads them
get_conversation_messages(rows, limit) ==
    LET from == IF Len(rows) > limit THEN Len(rows) - limit + 1 ELSE 1
    IN  [i \in 1..(Len(rows) - from + 1) |->
            [sender |-> rows[from + i - 1].sender, len |-> StrLen(rows[from + i - 1].content)]]

\* The rows themselves, for the routes that hand messages back
get_conversation_rows(rows, limit) ==
    SubSeq(rows, IF Len(rows) > limit THEN Len(rows) - limit + 1 ELSE 1, Len(rows))

CharacterStatuses == {"pending", "approved", "rejected"}

\* crud.characters.create_character: the row is stored with status pending
create_character(character_create, creator_id) ==
    [id |-> 1, creator_id |-> creator_id, status |-> "pending",
     name |-> character_create.name,
     fallback_response |-> character_create.fallback_response,
     greeting_message |-> character_create.greeting_message]

\* crud.characters.get_character: the rows with that primary key ({} is None)
get_character(table, character_id) == {c \in table : c.id = character_id}

\* crud.characters.update_character with a CharacterUpdate that sets status
update_character(table, db_character, status) ==
    (table \ {db_character}) \cup {[db_character EXCEPT !.status = status]}

\* POST /characters/submit (the model follows one character)
SubmitCharacter(current_user, character_in) ==
    /\ last = Idle
    /\ character_table = {}
    /\ character_table' = {create_character(character_in, current_user)}
    /\ last' = [op |-> "submit_character", current_user |-> current_user, status |-> 201]
    /\ UNCHANGED <<settings, GEMINI_AVAILABLE, ai_provider_config, provider_instances_cache,
                   conversation, messages, db_calls, thread_vars,
                   socket_vars>>

\* The admin routes that write the status of a character:
\* PATCH /admin/characters/{id}/approve, PATCH /admin/characters/{id}/reject
\* and PUT /admin/characters/{id} with a CharacterUpdate carrying status
AdminSetStatus(op, status) ==
    LET db_character == get_character(character_table, 1)
    IN  /\ last = Idle
        /\ IF db_character = {}
           THEN /\ last' = [op |-> op, status |-> 404]
                /\ UNCHANGED character_table
           ELSE /\ character_table' =
                      update_character(character_table, CHOOSE c \in db_character : TRUE, status)
                /\ last' = [op |-> op, status |-> 200]
        /\ UNCHANGED <<settings, GEMINI_AVAILABLE, ai_provider_config, provider_instances_cache,
                       conversation, messages, db_calls, thread_vars,
                   socket_vars>>

ApproveCharacter == AdminSetStatus("approve_character", "approved")

RejectCharacter == AdminSetStatus("reject_character", "rejected")

UpdateCharacterAdmin(status) == AdminSetStatus("update_character_admin", status)

\* POST /conversations/: 404 unless the character exists and is approved; the
\* greeting of the character becomes the first AI message (the model follows
\* one conversation)
StartConversation(current_user) ==
    LET character == get_character(character_table, 1)
        approved == {c \in character : c.status = "approved"}
        greeting == (CHOOSE c \in approved : TRUE).greeting_message
    IN  /\ last = Idle
        /\ conversation = {}
        /\ IF approved = {}
           THEN /\ last' = [op |-> "start_conversation", current_user |-> current_user,
                            status |-> 404]
                /\ UNCHANGED <<conversation, messages>>
           ELSE /\ conversation' = {[user_id |-> current_user, character_id |-> 1]}
                /\ messages' = IF Truthy(greeting)
                               THEN create_message(messages, greeting, "ai")
                               ELSE messages
                /\ last' = [op |-> "start_conversation", current_user |-> current_user,
                            status |-> 201]
        /\ UNCHANGED <<settings, GEMINI_AVAILABLE, ai_provider_config, provider_instances_cache,
                       character_table, db_calls, thread_vars,
                   socket_vars>>

\* The keyword arguments send_message, poll_for_message and handle_text_message
\* pass to ai_service.get_ai_response
send_message_passed == {"character", "history"}

\* Steps 1 to 6 of send_message and of poll_for_message once the conversation
\* is known to be the caller's: the status answered, the exception of the AI
\* service, the message rows, the provider table and the cache afterwards
SaveAndAnswer(conv, content, outcome, anthropic_refuses) ==
    LET with_user == create_message(messages, content, "user")
        history == get_conversation_messages(with_user, HistoryLimit)
        character == get_character(character_table, conv.character_id)
        runs == "session" \in send_message_passed
        p == get_ai_provider(ai_provider_config, provider_instances_cache,
                             settings, GEMINI_AVAILABLE, anthropic_refuses)
        r == get_ai_response(send_message_passed, p, CHOOSE c \in character : TRUE,
                             history, outcome)
        with_ai == create_message(with_user, r.text, "ai")
        table == IF runs THEN p.table ELSE ai_provider_config
        cache == IF runs THEN p.cache ELSE provider_instances_cache
    IN  IF character = {}
        THEN [status |-> 404, raised |-> None, rows |-> with_user, generated |-> None,
              table |-> ai_provider_config, cache |-> provider_instances_cache]
        ELSE IF r.raised # None
        THEN [status |-> 500, raised |-> r.raised, rows |-> with_user, generated |-> None,
              table |-> table, cache |-> cache]
        ELSE [status |-> 200, raised |-> None, rows |-> with_ai, generated |-> r.text,
              table |-> table, cache |-> cache]

\* POST /conversations/{id}/messages
SendMessage(current_user, content, outcome, anthropic_refuses) ==
    LET found == conversation # {}
        conv == CHOOSE c \in conversation : TRUE
        authorized == found /\ conv.user_id = current_user
    IN  /\ last = Idle
        /\ Len(messages) + 2 <= MaxMessages
        /\ IF ~found
           THEN /\ last' = [op |-> "send_message", current_user |-> current_user,
                            status |-> 404, pre_messages |-> messages]
                /\ UNCHANGED <<messages, ai_provider_config, provider_instances_cache>>
           ELSE IF ~authorized
           THEN /\ last' = [op |-> "send_message", current_user |-> current_user,
                            status |-> 403, pre_messages |-> messages]
                /\ UNCHANGED <<messages, ai_provider_config, provider_instances_cache>>
           ELSE \E a \in {SaveAndAnswer(conv, content, outcome, anthropic_refuses)} :
                /\ ai_provider_config' = a.table
                /\ provider_instances_cache' = a.cache
                /\ messages' = a.rows
                /\ last' = [op |-> "send_message", current_user |-> current_user,
                            content |-> content, status |-> a.status,
                            raised |-> a.raised, generated |-> a.generated,
                            returned |-> a.rows[Len(a.rows)],
                            pre_messages |-> messages]
        /\ UNCHANGED <<settings, GEMINI_AVAILABLE, conversation, character_table, db_calls, thread_vars,
                   socket_vars>>

\* POST /conversations/{id}/messages/poll.  last_message_id is 0 when the
\* client sends none; when it names one of the two latest messages and one of
\* these is an AI message, that message is returned and nothing is stored.
PollForMessage(current_user, content, last_message_id, outcome, anthropic_refuses) ==
    LET found == conversation # {}
        conv == CHOOSE c \in conversation : TRUE
        authorized == found /\ conv.user_id = current_user
        latest_messages == get_conversation_rows(messages, 2)
        matches == \E i \in DOMAIN latest_messages : latest_messages[i].id = last_message_id
        ai == {i \in DOMAIN latest_messages : latest_messages[i].sender = "ai"}
    IN  /\ last = Idle
        /\ Len(messages) + 2 <= MaxMessages
        /\ IF ~found
           THEN /\ last' = [op |-> "poll_for_message", current_user |-> current_user,
                            status |-> 404, pre_messages |-> messages]
                /\ UNCHANGED <<messages, ai_provider_config, provider_instances_cache>>
           ELSE IF ~authorized
           THEN /\ last' = [op |-> "poll_for_message", current_user |-> current_user,
                            status |-> 403, pre_messages |-> messages]
                /\ UNCHANGED <<messages, ai_provider_config, provider_instances_cache>>
           ELSE IF last_message_id # 0 /\ matches /\ ai # {}
           THEN /\ last' = [op |-> "poll_for_message", current_user |-> current_user,
                            content |-> content, last_message_id |-> last_message_id,
                            status |-> 200, replayed |-> TRUE,
                            returned |-> latest_messages[CHOOSE i \in ai : \A j \in ai : j <= i],
                            pre_messages |-> messages]
                /\ UNCHANGED <<messages, ai_provider_config, provider_instances_cache>>
           ELSE \E a \in {SaveAndAnswer(conv, content, outcome, anthropic_refuses)} :
                /\ ai_provider_config' = a.table
                /\ provider_instances_cache' = a.cache
                /\ messages' = a.rows
                /\ last' = [op |-> "poll_for_message", current_user |-> current_user,
                            content |-> content, last_message_id |-> last_message_id,
                            status |-> a.status, replayed |-> FALSE,
                            raised |-> a.raised, generated |-> a.generated,
                            returned |-> a.rows[Len(a.rows)],
                            pre_messages |-> messages]
        /\ UNCHANGED <<settings, GEMINI_AVAILABLE, conversation, character_table, db_calls, thread_vars,
                   socket_vars>>

\* GET /conversations/{id}/messages and GET /conversations/{id}/messages/latest
\* without since_timestamp: both answer 404, 403 or the rows, and write nothing
ReadMessages(op, current_user, limit) ==
    LET found == conversation # {}
        conv == CHOOSE c \in conversation : TRUE
    IN  /\ last = Idle
        /\ last' = [op |-> op, current_user |-> current_user,
                    status |-> IF ~found THEN 404
                               ELSE IF conv.user_id # current_user THEN 403 ELSE 200,
                    data |-> IF found /\ conv.user_id = current_user
                             THEN get_conversation_rows(messages, limit) ELSE <<>>,
                    pre_messages |-> messages]
        /\ UNCHANGED <<settings, GEMINI_AVAILABLE, ai_provider_config, provider_instances_cache,
                       conversation, messages, character_table, db_calls, thread_vars,
                   socket_vars>>

GetConversationMessages(current_user) ==
    ReadMessages("get_conversation_messages", current_user, 100)

GetLatestMessages(current_user) == ReadMessages("get_latest_messages", current_user, 10)

\* delete_conversation_route without the check of the owner
DeleteConversation_any_user(current_user) ==
    /\ last = Idle
    /\ conversation' = {}
    /\ messages' = <<>>
    /\ last' = [op |-> "delete_conversation", current_user |-> current_user,
                status |-> 204, pre_messages |-> messages]
    /\ UNCHANGED <<settings, GEMINI_AVAILABLE, ai_provider_config, provider_instances_cache,
                   character_table, db_calls, thread_vars,
                   socket_vars>>

\* DELETE /conversations/{id}: 204 for the owner and for an unknown id, 403 for
\* anybody else; the messages go with the conversation (cascade_delete)
DeleteConversation(current_user) ==
    LET found == conversation # {}
        conv == CHOOSE c \in conversation : TRUE
    IN  /\ last = Idle
        /\ IF ~found
           THEN /\ last' = [op |-> "delete_conversation", current_user |-> current_user,
                            status |-> 204, pre_messages |-> messages]
                /\ UNCHANGED <<conversation, messages>>
           ELSE IF conv.user_id # current_user
           THEN /\ last' = [op |-> "delete_conversation", current_user |-> current_user,
                            status |-> 403, pre_messages |-> messages]
                /\ UNCHANGED <<conversation, messages>>
           ELSE /\ conversation' = {}
                /\ messages' = <<>>
                /\ last' = [op |-> "delete_conversation", current_user |-> current_user,
                            status |-> 204, pre_messages |-> messages]
        /\ UNCHANGED <<settings, GEMINI_AVAILABLE, ai_provider_config, provider_instances_cache,
                       character_table, db_calls, thread_vars,
                   socket_vars>>

-----------------------------------------------------------------------------
(* The WebSocket endpoint /conversations/ws/{conversation_id} *)

\* The token query parameter: none, one that does not decode, or the valid
\* token of a user
Tokens ==
    {[kind |-> "missing"], [kind |-> "invalid"]} \cup {[kind |-> "valid", sub |-> u] : u \in Users}

\* authenticate_websocket: None without a token; otherwise what the call
\* get_user_from_token(websocket, session, token) evaluates to.  That function
\* is async and is called without await, so the value is a coroutine object
\* whatever the token: it is truthy and has no attribute id.
authenticate_websocket(token) ==
    IF token.kind = "missing" THEN [kind |-> "None"] ELSE [kind |-> "coroutine"]

\* The frames the server sends
ErrorFrame(message) == [type |-> "error", message |-> message]

MessageFrame(sender, content) == [type |-> "message", sender |-> sender, content |-> content]

TypingFrame(is_typing) == [type |-> "typing", is_typing |-> is_typing]

\* ConnectionManager.send_message: the frame goes out only when the manager
\* holds the connection of that user for that conversation
manager_send_message(registered, frames) == IF registered THEN frames ELSE <<>>

\* handle_text_message whose except clause leaves the typing indicator on
handle_text_message_typing_stays(conv, data_content, registered, outcome, anthropic_refuses) ==
    LET content == Strip(data_content)
        with_user == create_message(messages, content, "user")
        character == get_character(character_table, conv.character_id)
        frames == IF ~Truthy(content) THEN <<>>
                  ELSE IF character = {}
                  THEN <<MessageFrame("user", content), ErrorFrame("Character not found")>>
                  ELSE <<MessageFrame("user", content), TypingFrame(TRUE),
                         ErrorFrame("Failed to generate AI response")>>
    IN  [rows |-> IF Truthy(content) THEN with_user ELSE messages,
         frames |-> manager_send_message(registered, frames),
         table |-> ai_provider_config, cache |-> provider_instances_cache]

\* handle_text_message for one "text" frame: the message rows, the frames sent
\* through the manager, the provider table and the cache afterwards
handle_text_message(conv, data_content, registered, outcome, anthropic_refuses) ==
    LET content == Strip(data_content)
        with_user == create_message(messages, content, "user")
        history == get_conversation_messages(with_user, HistoryLimit)
        character == get_character(character_table, conv.character_id)
        runs == "session" \in send_message_passed
        p == get_ai_provider(ai_provider_config, provider_instances_cache,
                             settings, GEMINI_AVAILABLE, anthropic_refuses)
        r == get_ai_response(send_message_passed, p, CHOOSE c \in character : TRUE,
                             history, outcome)
        unchanged(rows, frames) ==
            [rows |-> rows, frames |-> manager_send_message(registered, frames),
             table |-> ai_provider_config, cache |-> provider_instances_cache]
    IN  IF ~Truthy(content)
        THEN unchanged(messages, <<>>)
        ELSE IF character = {}
        THEN unchanged(with_user, <<MessageFrame("user", content),
                                    ErrorFrame("Character not found")>>)
        ELSE IF r.raised # None
        THEN [rows |-> with_user,
              frames |-> manager_send_message(registered,
                            <<MessageFrame("user", content), TypingFrame(TRUE),
                              ErrorFrame("Failed to generate AI response"), TypingFrame(FALSE)>>),
              table |-> IF runs THEN p.table ELSE ai_provider_config,
              cache |-> IF runs THEN p.cache ELSE provider_instances_cache]
        ELSE [rows |-> create_message(with_user, r.text, "ai"),
              frames |-> manager_send_message(registered,
                            <<MessageFrame("user", content), TypingFrame(TRUE),
                              MessageFrame("ai", r.text), TypingFrame(FALSE)>>),
              table |-> p.table, cache |-> p.cache]

\* websocket_endpoint for a client that connects, sends one "text" frame and
\* goes away.  The server accepts before it authenticates.  crud.get_conversation
\* may be missing from the crud package (crud_has_get_conversation); reading
\* user.id of the coroutine object raises AttributeError, which the outer
\* handler answers with "Server error occurred" and close code 1011.
\* manager.connect is async and is called without await: the connection is
\* never registered with the manager.
WebSocketSession(token, data_content, crud_has_get_conversation, outcome, anthropic_refuses) ==
    LET user == authenticate_websocket(token)
        conv == CHOOSE c \in conversation : TRUE
        registered == FALSE
        closed(frame, code) ==
            /\ last' = [op |-> "websocket", token |-> token,
                        current_user |-> IF token.kind = "valid" THEN token.sub ELSE "anonymous",
                        content |-> data_content, accepted |-> TRUE,
                        sent |-> <<frame>>, close |-> code, processed |-> FALSE,
                        pre_messages |-> messages]
            /\ UNCHANGED <<messages, ai_provider_config, provider_instances_cache>>
    IN  /\ last = Idle
        /\ Len(messages) + 2 <= MaxMessages
        /\ IF user.kind = "None"
           THEN closed(ErrorFrame("Authentication failed"), 1008)
           ELSE IF ~crud_has_get_conversation
           THEN closed(ErrorFrame("Server error occurred"), 1011)
           ELSE IF conversation = {}
           THEN closed(ErrorFrame("Conversation not found or access denied"), 1008)
           ELSE IF user.kind # "User"
           THEN closed(ErrorFrame("Server error occurred"), 1011)
           ELSE IF conv.user_id # user.id
           THEN closed(ErrorFrame("Conversation not found or access denied"), 1008)
           ELSE \E h \in {handle_text_message(conv, data_content, registered,
                                               outcome, anthropic_refuses)} :
                /\ messages' = h.rows
                /\ ai_provider_config' = h.table
                /\ provider_instances_cache' = h.cache
                /\ last' = [op |-> "websocket", token |-> token, current_user |-> user.id,
                            content |-> data_content, accepted |-> TRUE,
                            sent |-> <<[type |-> "system_message"]>> \o h.frames,
                            close |-> 0, processed |-> TRUE,
                            pre_messages |-> messages]
        /\ UNCHANGED <<settings, GEMINI_AVAILABLE, conversation, character_table, db_calls, thread_vars,
                   socket_vars>>

WSContents == {<<>>, <<"hi">>}

Next ==
    \/ \E provider_name \in ProviderNameInputs, success_status \in {200, 500} :
          SetActiveAIProvider(provider_name, success_status)
    \/ GetActiveAIProvider
    \/ GetAvailableAIProviders
    \/ \E character \in Characters, history \in Histories, outcome \in Outcomes,
          anthropic_refuses \in BOOLEAN :
            GetAIResponse(character, history, outcome, anthropic_refuses)
    \/ Return

Spec == Init /\ [][Next]_vars

\* The conversation routes, under the configurations with every key or no key
InitSend ==
    /\ Init
    /\ settings.DEFAULT_AI_PROVIDER = "openai"
    /\ GEMINI_AVAILABLE
    /\ \E k \in KeyValues :
          /\ settings.GEMINI_API_KEY = k /\ settings.OPENAI_API_KEY = k
          /\ settings.OPENROUTER_API_KEY = k /\ settings.ANTHROPIC_API_KEY = k
          /\ settings.FPT_AI_API_KEY = k

NextSend ==
    \/ \E current_user \in Users, character_in \in Characters :
          SubmitCharacter(current_user, character_in)
    \/ ApproveCharacter
    \/ RejectCharacter
    \/ \E status \in CharacterStatuses : UpdateCharacterAdmin(status)
    \/ \E current_user \in Users : StartConversation(current_user)
    \/ \E current_user \in Users, content \in UserContents, outcome \in Outcomes,
          anthropic_refuses \in BOOLEAN :
            SendMessage(current_user, content, outcome, anthropic_refuses)
    \/ \E current_user \in Users, content \in UserContents, last_message_id \in 0..MaxMessages,
          outcome \in Outcomes, anthropic_refuses \in BOOLEAN :
            PollForMessage(current_user, content, last_message_id, outcome, anthropic_refuses)
    \/ \E current_user \in Users : GetConversationMessages(current_user)
    \/ \E current_user \in Users : GetLatestMessages(current_user)
    \/ \E current_user \in Users : DeleteConversation(current_user)
    \/ \E token \in Tokens, data_content \in WSContents, crud_has_get_conversation \in BOOLEAN,
          outcome \in Outcomes, anthropic_refuses \in BOOLEAN :
            WebSocketSession(token, data_content, crud_has_get_conversation,
                             outcome, anthropic_refuses)
    \/ \E provider_name \in ProviderNameInputs, success_status \in {200, 500} :
          SetActiveAIProvider(provider_name, success_status)
    \/ Return

SpecSend == InitSend /\ [][NextSend]_vars

-----------------------------------------------------------------------------
(* Prompt construction, history formatting and history truncation as
   operations of their own *)

\* Characters with the fields the system prompt is built from
PromptCharacters ==
    [name : CharacterNames,
     description : {None, <<>>, <<"A test character">>},
     scenario : {None, <<"Testing scenario">>},
     personality_traits : {None, <<>>, <<"Helpful, friendly">>},
     writing_style : {None, <<"Clear, concise">>},
     background : {None, <<"Born in a lab">>},
     knowledge_scope : {None, <<"Physics">>},
     quirks : {None, <<"Hums">>},
     emotional_range : {None, <<"Calm">>},
     language : {None, <<>>, <<"en">>}]

\* Histories of messages [sender, content]
FormatHistories == SeqsUpTo([sender : Senders, content : {<<>>, <<"Hello">>}], MaxFormatLen)

\* n messages of len characters each, user and ai alternating, oldest first
AlternatingHistory(n, len) ==
    [i \in 1..n |-> [sender |-> IF i % 2 = 1 THEN "user" ELSE "ai", len |-> len, id |-> i]]

TruncHistories == {AlternatingHistory(n, len) : n \in 0..MaxTruncLen, len \in {0, 1000, 200000}}

\* The budgets of the three callers, and the budget nothing fits in
Budgets == {0, OpenRouterMaxTokens, GeminiMaxTokens, OpenAIMaxTokens}

\* provider._build_system_prompt(character)
BuildSystemPrompt(character) ==
    /\ last = Idle
    /\ last' = [op |-> "build_system_prompt", character |-> character,
                prompt |-> build_system_prompt(character)]
    /\ UNCHANGED <<settings, GEMINI_AVAILABLE, ai_provider_config, provider_instances_cache,
                   conversation, messages, character_table, db_calls, thread_vars,
                   socket_vars>>

\* The history formatting of one provider family
FormatHistory(family, history) ==
    /\ last = Idle
    /\ last' = [op |-> "format_history", family |-> family, history |-> history,
                formatted |-> Format(family, history)]
    /\ UNCHANGED <<settings, GEMINI_AVAILABLE, ai_provider_config, provider_instances_cache,
                   conversation, messages, character_table, db_calls, thread_vars,
                   socket_vars>>

\* provider._truncate_history_if_needed(history, max_tokens=max_tokens)
TruncateHistory(history, max_tokens) ==
    /\ last = Idle
    /\ last' = [op |-> "truncate_history", history |-> history, max_tokens |-> max_tokens,
                truncated |-> truncate_history_if_needed(history, max_tokens)]
    /\ UNCHANGED <<settings, GEMINI_AVAILABLE, ai_provider_config, provider_instances_cache,
                   conversation, messages, character_table, db_calls, thread_vars,
                   socket_vars>>

InitFormat ==
    /\ Init
    /\ settings.DEFAULT_AI_PROVIDER = "openai"
    /\ GEMINI_AVAILABLE
    /\ \A k \in DOMAIN settings : k # "DEFAULT_AI_PROVIDER" => settings[k] = None
    /\ ai_provider_config = {}

NextFormat ==
    \/ \E character \in PromptCharacters : BuildSystemPrompt(character)
    \/ \E family \in FormatFamilies, history \in FormatHistories : FormatHistory(family, history)
    \/ \E history \in TruncHistories, max_tokens \in Budgets : TruncateHistory(history, max_tokens)
    \/ Return

SpecFormat == InitFormat /\ [][NextFormat]_vars

-----------------------------------------------------------------------------
(* Concurrent calls of _get_active_provider_name_from_db, each with a session
   of its own.  db_calls[p] is the position of call p and its local values:
   config is what session.get(AIProviderConfig, 1) gave the call ({} is None). *)

Callers == 1..NumCallers

\* config = get_ai_provider_config(session); a supported name is returned at once
CallGetConfig(p) ==
    LET config == get_ai_provider_config(ai_provider_config)
        valid == /\ config # {}
                 /\ \A r \in config : r.active_provider_name \in DOMAIN SUPPORTED_PROVIDERS
    IN  /\ db_calls[p].pc = "get_ai_provider_config"
        /\ db_calls' = [db_calls EXCEPT ![p] =
              IF valid
              THEN [@ EXCEPT !.pc = "done", !.config = config,
                             !.ret = (CHOOSE r \in config : TRUE).active_provider_name]
              ELSE [@ EXCEPT !.pc = "set_ai_provider_config", !.config = config,
                             !.default_to_set = DefaultToSet(settings)]]
        /\ UNCHANGED <<settings, GEMINI_AVAILABLE, ai_provider_config, provider_instances_cache,
                       conversation, messages, character_table, last, thread_vars,
                   socket_vars>>

\* set_ai_provider_config: session.get(AIProviderConfig, 1).  A row the session
\* has loaded before comes from its identity map; otherwise the table is read.
CallSetGet(p) ==
    /\ db_calls[p].pc = "set_ai_provider_config"
    /\ db_calls' = [db_calls EXCEPT ![p] =
          [@ EXCEPT !.pc = "commit",
                    !.config = IF @ # {} THEN @ ELSE get_ai_provider_config(ai_provider_config)]]
    /\ UNCHANGED <<settings, GEMINI_AVAILABLE, ai_provider_config, provider_instances_cache,
                   conversation, messages, character_table, last, thread_vars,
                   socket_vars>>

\* session.add(config); session.commit(): an UPDATE of the row loaded, or an
\* INSERT of a row with id 1, which the primary key refuses with IntegrityError
\* when another session has inserted that row in the meantime
CallCommit(p) ==
    LET c == db_calls[p]
        row == [id |-> 1, active_provider_name |-> c.default_to_set]
        taken == get_ai_provider_config(ai_provider_config) # {}
    IN  /\ c.pc = "commit"
        /\ IF c.config # {}
           THEN /\ ai_provider_config' =
                      (ai_provider_config \ get_ai_provider_config(ai_provider_config)) \cup {row}
                /\ db_calls' = [db_calls EXCEPT ![p] =
                      [@ EXCEPT !.pc = "done", !.ret = c.default_to_set]]
           ELSE IF taken
           THEN /\ UNCHANGED ai_provider_config
                /\ db_calls' = [db_calls EXCEPT ![p] =
                      [@ EXCEPT !.pc = "done", !.raised = <<"IntegrityError">>]]
           ELSE /\ ai_provider_config' = ai_provider_config \cup {row}
                /\ db_calls' = [db_calls EXCEPT ![p] =
                      [@ EXCEPT !.pc = "done", !.ret = c.default_to_set]]
        /\ UNCHANGED <<settings, GEMINI_AVAILABLE, provider_instances_cache,
                       conversation, messages, character_table, last, thread_vars,
                   socket_vars>>

InitConcurrent ==
    /\ settings \in [GEMINI_API_KEY : KeyValues, OPENAI_API_KEY : {None},
                     OPENROUTER_API_KEY : {None}, ANTHROPIC_API_KEY : {None},
                     FPT_AI_API_KEY : {None}, DEFAULT_AI_PROVIDER : DefaultProviderValues]
    /\ GEMINI_AVAILABLE = TRUE
    /\ ai_provider_config \in
          {{}} \cup {{[id |-> 1, active_provider_name |-> n]} : n \in ProviderNameInputs}
    /\ provider_instances_cache = <<>>
    /\ conversation = {}
    /\ messages = <<>>
    /\ character_table = {}
    /\ db_calls = [p \in Callers |->
                     [pc |-> "get_ai_provider_config", initial |-> ai_provider_config,
                      config |-> {}, default_to_set |-> "", ret |-> "", raised |-> None]]
    /\ threads = <<>>
    /\ constructed = <<>>
    /\ active_connections = <<>>
    /\ websockets = <<>>
    /\ last = Idle

NextConcurrent ==
    \/ \E p \in Callers : CallGetConfig(p)
    \/ \E p \in Callers : CallSetGet(p)
    \/ \E p \in Callers : CallCommit(p)

SpecConcurrent == InitConcurrent /\ [][NextConcurrent]_vars

-----------------------------------------------------------------------------
(* The connection manager (ConnectionManager, conversations.py) and the handler
   of text frames, driven through their own interface: connections are handed
   to manager.connect, which is awaited here, and go away through
   manager.disconnect.  websockets[s] is the position of connection s and the
   pair it was connected for. *)

Sockets == 1..NumSockets

ConversationIds == {1}

\* The pair (conversation_id, user_id) has an entry in active_connections
manager_registered(connections, conversation_id, user_id) ==
    /\ conversation_id \in DOMAIN connections
    /\ user_id \in DOMAIN connections[conversation_id]

\* The second half of ConnectionManager.connect: the dict of the conversation
\* is created when missing and the entry of the user is assigned
manager_connect(connections, websocket, conversation_id, user_id) ==
    LET of_conversation == IF conversation_id \in DOMAIN connections
                           THEN connections[conversation_id] ELSE <<>>
    IN  (conversation_id :> ((user_id :> websocket) @@ of_conversation)) @@ connections

\* ConnectionManager.disconnect(conversation_id, user_id): the entry of the
\* user is deleted, whichever connection it holds, and an empty dict of the
\* conversation is deleted
manager_disconnect(connections, conversation_id, user_id) ==
    IF conversation_id \notin DOMAIN connections THEN connections
    ELSE LET of_conversation == connections[conversation_id]
             remaining == [u \in DOMAIN of_conversation \ {user_id} |-> of_conversation[u]]
         IN  IF DOMAIN remaining = {}
             THEN [c \in DOMAIN connections \ {conversation_id} |-> connections[c]]
             ELSE [connections EXCEPT ![conversation_id] = remaining]

\* await manager.connect(websocket, conversation_id, user_id) up to its await:
\* await websocket.accept()
ConnectAccept(websocket, conversation_id, user_id) ==
    /\ websockets[websocket].pc = "new"
    /\ websockets' = [websockets EXCEPT ![websocket] =
          [pc |-> "accepted", conversation_id |-> conversation_id, user_id |-> user_id]]
    /\ UNCHANGED <<settings, GEMINI_AVAILABLE, ai_provider_config, provider_instances_cache,
                   conversation, messages, character_table, db_calls, thread_vars,
                   active_connections, last>>

\* The rest of manager.connect: the connection is stored for its pair
ConnectRegister(websocket) ==
    LET w == websockets[websocket]
    IN  /\ w.pc = "accepted"
        /\ active_connections' =
              manager_connect(active_connections, websocket, w.conversation_id, w.user_id)
        /\ websockets' = [websockets EXCEPT ![websocket].pc = "open"]
        /\ UNCHANGED <<settings, GEMINI_AVAILABLE, ai_provider_config, provider_instances_cache,
                       conversation, messages, character_table, db_calls, thread_vars, last>>

\* The connection goes away: the finally clause of websocket_endpoint calls
\* manager.disconnect(conversation_id, user.id)
Disconnect(websocket) ==
    LET w == websockets[websocket]
    IN  /\ w.pc = "open"
        /\ active_connections' =
              manager_disconnect(active_connections, w.conversation_id, w.user_id)
        /\ websockets' = [websockets EXCEPT ![websocket].pc = "closed"]
        /\ UNCHANGED <<settings, GEMINI_AVAILABLE, ai_provider_config, provider_instances_cache,
                       conversation, messages, character_table, db_calls, thread_vars, last>>

\* await manager.send_message(conversation_id, user_id, message): the frame
\* goes to the connection stored for the pair; to is 0 and the result False
\* when there is none
ManagerSendMessage(conversation_id, user_id) ==
    LET registered == manager_registered(active_connections, conversation_id, user_id)
    IN  /\ last = Idle
        /\ last' = [op |-> "manager_send_message", conversation_id |-> conversation_id,
                    user_id |-> user_id, result |-> registered,
                    to |-> IF registered THEN active_connections[conversation_id][user_id] ELSE 0]
        /\ UNCHANGED <<settings, GEMINI_AVAILABLE, ai_provider_config, provider_instances_cache,
                       conversation, messages, character_table, db_calls, thread_vars,
                       socket_vars>>

\* await handle_text_message(...) for a "text" frame received on an open
\* connection of the owner of the conversation.  issued are the frames the
\* handler hands to manager.send_message, sent the frames the manager sends
\* on.  create_message may raise for the user message (the database fails):
\* the outer except clause issues one error frame.
HandleTextMessage(websocket, data_content, create_message_raises, outcome, anthropic_refuses) ==
    LET w == websockets[websocket]
        conv == CHOOSE c \in conversation : TRUE
        registered == manager_registered(active_connections, w.conversation_id, w.user_id)
        failed == <<ErrorFrame("Server error while processing your message")>>
    IN  /\ last = Idle
        /\ w.pc = "open"
        /\ conversation # {}
        /\ w.user_id = conv.user_id
        /\ Len(messages) + 2 <= MaxMessages
        /\ \E h \in {handle_text_message(conv, data_content, registered,
                                          outcome, anthropic_refuses)},
              all \in {handle_text_message(conv, data_content, TRUE,
                                           outcome, anthropic_refuses)} :
              LET raises == create_message_raises /\ Truthy(Strip(data_content))
              IN  /\ messages' = IF raises THEN messages ELSE h.rows
                  /\ ai_provider_config' = IF raises THEN ai_provider_config ELSE h.table
                  /\ provider_instances_cache' =
                        IF raises THEN provider_instances_cache ELSE h.cache
                  /\ last' = [op |-> "handle_text_message", websocket |-> websocket,
                              content |-> data_content, raised |-> raises,
                              registered |-> registered,
                              issued |-> IF raises THEN failed ELSE all.frames,
                              sent |-> IF raises THEN manager_send_message(registered, failed)
                                       ELSE h.frames,
                              pre_messages |-> messages]
        /\ UNCHANGED <<settings, GEMINI_AVAILABLE, conversation, character_table, db_calls,
                       thread_vars, socket_vars>>

\* One conversation of alice with an approved character, or with a character
\* that has been deleted; no connection has been handed to the manager yet
InitSocket ==
    /\ settings \in [GEMINI_API_KEY : {<<"sk-key">>}, OPENAI_API_KEY : {None},
                     OPENROUTER_API_KEY : {None}, ANTHROPIC_API_KEY : {None},
                     FPT_AI_API_KEY : {None}, DEFAULT_AI_PROVIDER : {"openai"}]
    /\ GEMINI_AVAILABLE = TRUE
    /\ ai_provider_config = {[id |-> 1, active_provider_name |-> "gemini"]}
    /\ provider_instances_cache = <<>>
    /\ conversation = {[user_id |-> "alice", character_id |-> 1]}
    /\ messages = <<>>
    /\ character_table \in
          {{}} \cup {{[create_character(c, "bob") EXCEPT !.status = "approved"]} :
                        c \in {ch \in Characters : ch.fallback_response = None}}
    /\ db_calls = <<>>
    /\ threads = <<>>
    /\ constructed = <<>>
    /\ active_connections = <<>>
    /\ websockets = [s \in Sockets |-> [pc |-> "new", conversation_id |-> 0, user_id |-> ""]]
    /\ last = Idle

NextSocket ==
    \/ \E websocket \in Sockets, conversation_id \in ConversationIds, user_id \in Users :
          ConnectAccept(websocket, conversation_id, user_id)
    \/ \E websocket \in Sockets : ConnectRegister(websocket)
    \/ \E websocket \in Sockets : Disconnect(websocket)
    \/ \E conversation_id \in ConversationIds, user_id \in Users :
          ManagerSendMessage(conversation_id, user_id)
    \/ \E websocket \in Sockets, data_content \in WSContents,
          create_message_raises \in BOOLEAN, outcome \in Outcomes,
          anthropic_refuses \in BOOLEAN :
            HandleTextMessage(websocket, data_content, create_message_raises,
                              outcome, anthropic_refuses)
    \/ Return

SpecSocket == InitSocket /\ [][NextSocket]_vars

-----------------------------------------------------------------------------
(* Concurrent calls of get_ai_response(session=...) and of set_active_provider,
   one thread each, on the shared dict _provider_instances_cache.  A step is
   what a thread does between two points where another thread can run; the
   database calls are taken as one step each.  threads[t] is the position of
   thread t and its local values; an instance carries the number of the thread
   that constructed it, which tells two objects of one class apart. *)

Threads == 1..NumThreads

\* The names the set_active_provider threads are called with
SetNames == {"gemini", "openai", "claude"}

\* No provider object
NoInstance == [cls |-> "", api_key |-> None, id |-> 0]

\* The calls the threads make
ThreadCalls ==
    {[kind |-> "get_ai_response", pc |-> "resolve", name |-> "",
      provider |-> NoInstance, raised |-> None]} \cup
    {[kind |-> "set_active_provider", pc |-> "persist", name |-> n,
      provider |-> NoInstance, raised |-> None] : n \in SetNames}

\* del d[name] and d.clear(): the dict without the keys
dict_without(d, keys) == [n \in DOMAIN d \ keys |-> d[n]]

\* The constructions recorded, without those of the names
constructed_without(names) ==
    LET keep(c) == c.name \notin names
    IN  SelectSeq(constructed, keep)

\* get_ai_provider: active_provider_name = _get_active_provider_name_from_db(session)
ThreadResolve(t) ==
    LET r == get_active_provider_name_from_db(ai_provider_config, settings)
    IN  /\ threads[t].kind = "get_ai_response"
        /\ threads[t].pc = "resolve"
        /\ ai_provider_config' = r.table
        /\ threads' = [threads EXCEPT ![t] = [@ EXCEPT !.pc = "check", !.name = r.ret]]
        /\ UNCHANGED <<settings, GEMINI_AVAILABLE, provider_instances_cache, conversation,
                       messages, character_table, db_calls, constructed, socket_vars, last>>

\* get_ai_provider: `if active_provider_name not in _provider_instances_cache`,
\* with the fallback for an unsupported name
ThreadCheck(t) ==
    LET name == threads[t].name
        cached == name \in DOMAIN provider_instances_cache
        unsupported == name \notin DOMAIN SUPPORTED_PROVIDERS
    IN  /\ threads[t].kind = "get_ai_response"
        /\ threads[t].pc = "check"
        /\ ai_provider_config' =
              IF ~cached /\ unsupported
              THEN set_ai_provider_config(ai_provider_config, _DEFAULT_PROVIDER_NAME)
              ELSE ai_provider_config
        /\ threads' = [threads EXCEPT ![t] =
              [@ EXCEPT !.pc = IF cached THEN "return" ELSE "construct",
                        !.name = IF ~cached /\ unsupported THEN _DEFAULT_PROVIDER_NAME ELSE name]]
        /\ UNCHANGED <<settings, GEMINI_AVAILABLE, provider_instances_cache, conversation,
                       messages, character_table, db_calls, constructed, socket_vars, last>>

\* get_ai_provider: _provider_instances_cache[name] = provider_class(**constructor_args);
\* an exception of the constructor is re-raised and get_ai_response answers
\* with the provider-unavailable fallback
ThreadConstruct(t, anthropic_refuses) ==
    LET name == threads[t].name
        api_key == ProviderApiKey(name, settings)
        exc == ConstructorRaises(name, api_key, settings, GEMINI_AVAILABLE, anthropic_refuses)
        instance == [cls |-> NewInstance(name, api_key, settings).cls,
                     api_key |-> NewInstance(name, api_key, settings).api_key,
                     id |-> t]
    IN  /\ threads[t].kind = "get_ai_response"
        /\ threads[t].pc = "construct"
        /\ IF exc # None
           THEN /\ threads' = [threads EXCEPT ![t] = [@ EXCEPT !.pc = "done", !.raised = exc]]
                /\ UNCHANGED <<provider_instances_cache, constructed>>
           ELSE /\ provider_instances_cache' = (name :> instance) @@ provider_instances_cache
                /\ constructed' = Append(constructed, [name |-> name, id |-> t])
                /\ threads' = [threads EXCEPT ![t] = [@ EXCEPT !.pc = "return"]]
        /\ UNCHANGED <<settings, GEMINI_AVAILABLE, ai_provider_config, conversation,
                       messages, character_table, db_calls, socket_vars, last>>

\* get_ai_provider: `return _provider_instances_cache[active_provider_name]`;
\* a key that is gone raises KeyError, which get_ai_response answers with the
\* provider-unavailable fallback
ThreadReturn(t) ==
    LET name == threads[t].name
    IN  /\ threads[t].kind = "get_ai_response"
        /\ threads[t].pc = "return"
        /\ threads' = [threads EXCEPT ![t] =
              IF name \in DOMAIN provider_instances_cache
              THEN [@ EXCEPT !.pc = "done", !.provider = provider_instances_cache[name]]
              ELSE [@ EXCEPT !.pc = "done", !.raised = <<"KeyError">>]]
        /\ UNCHANGED <<settings, GEMINI_AVAILABLE, ai_provider_config, provider_instances_cache,
                       conversation, messages, character_table, db_calls, constructed,
                       socket_vars, last>>

\* set_active_provider: the two checks and crud_set_ai_provider_config
ThreadPersist(t) ==
    LET name == threads[t].name
        refused == \/ name \notin DOMAIN SUPPORTED_PROVIDERS
                   \/ name \notin get_available_providers(settings)
    IN  /\ threads[t].kind = "set_active_provider"
        /\ threads[t].pc = "persist"
        /\ ai_provider_config' =
              IF refused THEN ai_provider_config
              ELSE set_ai_provider_config(ai_provider_config, name)
        /\ threads' = [threads EXCEPT ![t] =
              IF refused THEN [@ EXCEPT !.pc = "done", !.raised = <<"ValueError">>]
              ELSE [@ EXCEPT !.pc = "del"]]
        /\ UNCHANGED <<settings, GEMINI_AVAILABLE, provider_instances_cache, conversation,
                       messages, character_table, db_calls, constructed, socket_vars, last>>

\* set_active_provider: `if name in _provider_instances_cache: del ...[name]`
ThreadDel(t) ==
    /\ threads[t].kind = "set_active_provider"
    /\ threads[t].pc = "del"
    /\ provider_instances_cache' = dict_without(provider_instances_cache, {threads[t].name})
    /\ constructed' = constructed_without({threads[t].name})
    /\ threads' = [threads EXCEPT ![t] = [@ EXCEPT !.pc = "clear"]]
    /\ UNCHANGED <<settings, GEMINI_AVAILABLE, ai_provider_config, conversation,
                   messages, character_table, db_calls, socket_vars, last>>

\* set_active_provider: _provider_instances_cache.clear()
ThreadClear(t) ==
    /\ threads[t].kind = "set_active_provider"
    /\ threads[t].pc = "clear"
    /\ provider_instances_cache' = <<>>
    /\ constructed' = <<>>
    /\ threads' = [threads EXCEPT ![t] = [@ EXCEPT !.pc = "done"]]
    /\ UNCHANGED <<settings, GEMINI_AVAILABLE, ai_provider_config, conversation,
                   messages, character_table, db_calls, socket_vars, last>>

\* The keys of gemini and openai are present; gemini is the active provider
InitThreads ==
    /\ settings \in [GEMINI_API_KEY : {<<"sk-key">>}, OPENAI_API_KEY : {<<"sk-key">>},
                     OPENROUTER_API_KEY : {None}, ANTHROPIC_API_KEY : {None},
                     FPT_AI_API_KEY : {None}, DEFAULT_AI_PROVIDER : {"openai"}]
    /\ GEMINI_AVAILABLE = TRUE
    /\ ai_provider_config = {[id |-> 1, active_provider_name |-> "gemini"]}
    /\ provider_instances_cache = <<>>
    /\ conversation = {}
    /\ messages = <<>>
    /\ character_table = {}
    /\ db_calls = <<>>
    /\ threads \in [Threads -> ThreadCalls]
    /\ constructed = <<>>
    /\ active_connections = <<>>
    /\ websockets = <<>>
    /\ last = Idle

NextThreads ==
    \/ \E t \in Threads : ThreadResolve(t)
    \/ \E t \in Threads : ThreadCheck(t)
    \/ \E t \in Threads, anthropic_refuses \in BOOLEAN : ThreadConstruct(t, anthropic_refuses)
    \/ \E t \in Threads : ThreadReturn(t)
    \/ \E t \in Threads : ThreadPersist(t)
    \/ \E t \in Threads : ThreadDel(t)
    \/ \E t \in Threads : ThreadClear(t)

SpecThreads == InitThreads /\ [][NextThreads]_vars

-----------------------------------------------------------------------------
(* Properties *)

\* get_ai_response has returned or raised and is about to hand over its result
IsResponse == last.op = "get_ai_response"

\* get_ai_response obtained a provider object and made its one network call
CallMade == IsResponse /\ last.provider_raised = None /\ last.calls = 1

\* The network call failed: timeout, rate limit, connection error, error
\* status, unexpected exception, or a 200 answer without content
CallFailed ==
    /\ CallMade
    /\ \/ last.outcome.kind \in {"timeout", "rate_limit", "connection", "status", "exception"}
       \/ last.outcome.kind = "ok" /\ ~Truthy(last.outcome.content)

ImplementedClasses ==
    {"GeminiProvider", "OpenAIProvider", "FPTAIProvider"} \cup OpenRouterClasses

HasUserMessage(history) == \E i \in DOMAIN history : history[i].sender = "user"

\* C1: for Gemini, OpenAI, the OpenRouter-hosted models and FPT AI, whatever
\* way the network call fails, get_ai_response returns a str and raises nothing.
C1_ReturnsStringOnProviderFailure ==
    (CallFailed /\ last.provider.cls \in ImplementedClasses)
        => (last.raised = None /\ last.text # None)

\* OpenAI answered with a None content, which raises TypeError inside the try
C1_Witness ==
    /\ CallFailed
    /\ last.provider.cls = "OpenAIProvider"
    /\ last.outcome.kind = "ok" /\ last.outcome.content = None
    /\ last.raised = None

\* C2: whenever the provider call fails and the character's fallback_response
\* is not empty, get_ai_response returns exactly that fallback_response.
C2_FallbackReturnedOnFailure ==
    (CallFailed /\ Truthy(last.character.fallback_response))
        => (last.raised = None /\ last.text = last.character.fallback_response)

\* C3: with no sender=user message in the history, get_ai_response makes no
\* network call and returns the greeting_message if present, else a greeting
\* that carries the character's name (stated for the providers whose
\* get_response is implemented).
C3_GreetingWithoutNetworkCall ==
    (/\ IsResponse /\ last.provider_raised = None
     /\ last.provider.cls \in ImplementedClasses
     /\ ~HasUserMessage(last.history))
        => /\ last.raised = None
           /\ last.calls = 0
           /\ IF Truthy(last.character.greeting_message)
              THEN last.text = last.character.greeting_message
              ELSE Mentions(last.text, last.character.name)

\* C4: when get_ai_provider raises (no instance for the resolved provider),
\* get_ai_response raises nothing, makes no network call and returns the
\* fallback_response if set, else the service-unavailable sentence.
C4_ProviderUnavailableFallback ==
    (IsResponse /\ last.provider_raised # None)
        => /\ last.raised = None
           /\ last.calls = 0
           /\ last.text = IF Truthy(last.character.fallback_response)
                          THEN last.character.fallback_response
                          ELSE <<"I'm having trouble reaching my AI brain at the moment.">>

\* The constructor raised and the character has no fallback_response
C4_Witness ==
    /\ IsResponse
    /\ last.provider_raised # None
    /\ ~Truthy(last.character.fallback_response)
    /\ last.text = <<"I'm having trouble reaching my AI brain at the moment.">>

\* C5: with the Claude provider active (get_response not implemented),
\* get_ai_response raises nothing and returns the fallback_response if
\* configured, else a non-empty apology.
C5_NotImplementedHandledAsFailure ==
    (IsResponse /\ last.provider_raised = None /\ last.provider.cls = "ClaudeProvider")
        => /\ last.raised = None
           /\ IF Truthy(last.character.fallback_response)
              THEN last.text = last.character.fallback_response
              ELSE ~IsEmptyStr(last.text)

\* C6 as stated: whenever the provider call fails and the fallback_response is
\* empty or null, the str returned is not empty and mentions the character's name.
C6_ApologyMentionsName ==
    (CallFailed /\ ~Truthy(last.character.fallback_response))
        => /\ last.raised = None
           /\ ~IsEmptyStr(last.text)
           /\ Mentions(last.text, last.character.name)

\* C6 as amended: whenever the provider call fails and the fallback_response is
\* empty or null, the str returned is not empty; it mentions the character's
\* name exactly when the provider is Gemini or FPT AI, or the failure is an
\* empty content ("" for OpenAI, "" or None for the OpenRouter-hosted models).
C6_ApologyNonEmpty ==
    (CallFailed /\ ~Truthy(last.character.fallback_response))
        => /\ last.raised = None
           /\ ~IsEmptyStr(last.text)
           /\ Mentions(last.text, last.character.name)
                <=> \/ last.provider.cls \in {"GeminiProvider", "FPTAIProvider"}
                    \/ /\ last.outcome.kind = "ok"
                       /\ \/ last.outcome.content = <<>>
                          \/ last.provider.cls \in OpenRouterClasses

\* Gemini failed for a character without fallback_response
C6_Witness ==
    /\ CallFailed
    /\ last.character.fallback_response = None
    /\ last.provider.cls = "GeminiProvider"
    /\ last.outcome.kind = "timeout"
    /\ Mentions(last.text, last.character.name)

\* send_message has run for the owner of the conversation
OwnerSent == last.op = "send_message" /\ last.status \notin {403, 404}

\* C7: every send_message of the conversation's owner is answered without an
\* error: the user message is stored, then one AI message holding the str that
\* get_ai_response returned, and that AI message is returned.
C7_SendMessageAlwaysAnswers ==
    OwnerSent
        => /\ last.status = 200
           /\ Len(messages) = Len(last.pre_messages) + 2
           /\ SubSeq(messages, 1, Len(last.pre_messages)) = last.pre_messages
           /\ messages[Len(messages) - 1].sender = "user"
           /\ messages[Len(messages) - 1].content = last.content
           /\ messages[Len(messages)].sender = "ai"
           /\ messages[Len(messages)].content = last.generated
           /\ last.returned = messages[Len(messages)]

IsSetActive == last.op = "set_active_provider"

\* The row with primary key 1 holds name and there is no other row
Persisted(name) == ai_provider_config = {[id |-> 1, active_provider_name |-> name]}

\* C8: set_active_provider(name) with a name that is not supported, or that is
\* supported but has no key, raises; the table and the cache are what they were
\* before the call and the route answers 400.
C8_RejectedSetLeavesStateAlone ==
    (IsSetActive /\ (\/ last.name \notin DOMAIN SUPPORTED_PROVIDERS
                     \/ ~Truthy(ProviderApiKey(last.name, settings))))
        => /\ last.raised # None
           /\ last.status = 400
           /\ ai_provider_config = last.pre_table
           /\ provider_instances_cache = last.pre_cache

\* A supported name without key was refused while the cache held an instance
C8_Witness ==
    /\ IsSetActive
    /\ last.name \in DOMAIN SUPPORTED_PROVIDERS
    /\ ~Truthy(ProviderApiKey(last.name, settings))
    /\ last.raised # None
    /\ last.pre_cache # <<>>
    /\ last.pre_table # {}

\* C9 as stated: after a successful set_active_provider(name) the table holds
\* name, the cache is empty, and the next get_ai_provider resolves name and
\* constructs a new instance of name's class.
C9_NextResponseUsesFreshInstance ==
    (IsSetActive /\ last.raised = None)
        => /\ Persisted(last.name)
           /\ provider_instances_cache = <<>>
           /\ \A anthropic_refuses \in BOOLEAN :
                LET p == get_ai_provider(ai_provider_config, provider_instances_cache,
                                         settings, GEMINI_AVAILABLE, anthropic_refuses)
                IN  /\ p.name = last.name
                    /\ p.raised = None
                    /\ p.constructed
                    /\ p.provider.cls = SUPPORTED_PROVIDERS[last.name]

\* C9 as amended: after a successful set_active_provider(name) the table holds
\* name and the cache is empty; the next get_ai_provider resolves name and
\* constructs and caches a new instance of name's class, except for gemini
\* without the google-genai library, where the constructor raises and the
\* cache stays empty.
C9_SuccessfulSetInvalidatesCache ==
    (IsSetActive /\ last.raised = None)
        => /\ Persisted(last.name)
           /\ provider_instances_cache = <<>>
           /\ \A anthropic_refuses \in BOOLEAN :
                LET p == get_ai_provider(ai_provider_config, provider_instances_cache,
                                         settings, GEMINI_AVAILABLE, anthropic_refuses)
                IN  /\ p.name = last.name
                    /\ p.table = ai_provider_config
                    /\ IF last.name = "gemini" /\ ~GEMINI_AVAILABLE
                       THEN p.raised # None /\ p.cache = <<>>
                       ELSE /\ p.raised = None
                            /\ p.constructed
                            /\ p.provider.cls = SUPPORTED_PROVIDERS[last.name]
                            /\ DOMAIN p.cache = {last.name}
                            /\ p.cache[last.name] = p.provider

\* A successful set_active_provider changed the name and emptied a cache that
\* held an instance of the provider active before
C9_Witness ==
    /\ IsSetActive
    /\ last.raised = None
    /\ last.pre_cache # <<>>
    /\ last.name \notin DOMAIN last.pre_cache
    /\ provider_instances_cache = <<>>
    /\ Persisted(last.name)

IsGetActive == last.op = "get_active_provider_name"

\* C10: get_active_provider_name returns the persisted name without writing
\* when that name is supported, and otherwise (no row, or an unsupported name)
\* writes a default name and returns it; the name returned is supported and is
\* the persisted name afterwards, and a second call returns it without writing.
C10_ActiveNameSelfHeals ==
    IsGetActive
        => LET before == {r \in last.pre_table : r.id = 1}
               valid == /\ before # {}
                        /\ \A r \in before : r.active_provider_name \in DOMAIN SUPPORTED_PROVIDERS
               again == get_active_provider_name_from_db(ai_provider_config, settings)
           IN  /\ valid => /\ ~last.wrote
                           /\ ai_provider_config = last.pre_table
                           /\ \A r \in before : last.ret = r.active_provider_name
               /\ ~valid => last.wrote
               /\ last.ret \in DOMAIN SUPPORTED_PROVIDERS
               /\ Persisted(last.ret)
               /\ again.ret = last.ret
               /\ ~again.wrote
               /\ again.table = ai_provider_config

\* The row held an unsupported name and was rewritten
C10_Witness ==
    /\ IsGetActive
    /\ last.pre_table = {[id |-> 1, active_provider_name |-> UnsupportedName]}
    /\ last.wrote
    /\ Persisted(last.ret)

IsGetAvailable == last.op = "get_available_providers"

\* C11: get_available_providers returns exactly the supported names whose key
\* is present in the settings (gemini, openai, claude, fptai by their own key,
\* the five OpenRouter aliases by the OpenRouter key), each name once, and
\* changes neither the persisted active provider nor the instance cache.
C11_AvailableIffCredentialPresent ==
    IsGetAvailable
        => /\ \A n \in DOMAIN SUPPORTED_PROVIDERS :
                (\E i \in DOMAIN last.list : last.list[i] = n)
                    <=> Truthy(ProviderApiKey(n, settings))
           /\ \A i \in DOMAIN last.list : last.list[i] \in DOMAIN SUPPORTED_PROVIDERS
           /\ \A i, j \in DOMAIN last.list : last.list[i] = last.list[j] => i = j
           /\ ai_provider_config = last.pre_table
           /\ provider_instances_cache = last.pre_cache

\* Only the OpenRouter key and the OpenAI key differ: the five aliases are
\* listed and openai is not, while the cache holds an instance
C11_Witness ==
    /\ IsGetAvailable
    /\ Truthy(settings.OPENROUTER_API_KEY)
    /\ ~Truthy(settings.OPENAI_API_KEY)
    /\ Len(last.list) >= 5
    /\ last.pre_cache # <<>>

\* C12: for every supported provider name, get_ai_provider fails when the key
\* of that provider is absent from the settings, and after the failure the
\* cache holds no instance under that name.
C12_MissingKeyFailsConstruction ==
    (/\ IsResponse
     /\ last.name \in DOMAIN SUPPORTED_PROVIDERS
     /\ ~Truthy(ProviderApiKey(last.name, settings)))
        => /\ last.provider_raised # None
           /\ last.name \notin DOMAIN provider_instances_cache

IsBuildPrompt == last.op = "build_system_prompt"

\* The fields the system prompt is said to be built from
PromptFields ==
    {"name", "description", "scenario", "personality_traits", "writing_style",
     "background", "knowledge_scope", "quirks", "emotional_range", "language"}

\* The line of the prompt is the line of the field: it carries the field's
\* label (the code's labels; the name's line opens the prompt)
LineOfField(line, field) ==
    Head(line) = CASE field = "name" -> "You are "
                   [] field = "description" -> "- Description: "
                   [] field = "scenario" -> "- Scenario: "
                   [] field = "personality_traits" -> "- Personality: "
                   [] field = "writing_style" -> "- Writing Style: "
                   [] field = "background" -> "- Background: "
                   [] field = "knowledge_scope" -> "- Knowledge Scope: "
                   [] field = "quirks" -> "- Quirks: "
                   [] field = "emotional_range" -> "- Emotional Range: "
                   [] field = "language" -> "- Language: "

\* C13: the system prompt has one labelled line for each non-empty field among
\* name, description, scenario, personality_traits, writing_style, background,
\* knowledge_scope, quirks, emotional_range and language, no line (blank or
\* label-only) for a field that is null or empty, and building it again gives
\* the same text.
C13_PromptLinesForNonEmptyFields ==
    IsBuildPrompt
        => /\ \A field \in PromptFields :
                LET value == IF field = "name" THEN <<last.character.name>>
                             ELSE last.character[field]
                    lines == {i \in DOMAIN last.prompt : LineOfField(last.prompt[i], field)}
                IN  IF Truthy(value)
                    THEN /\ Cardinality(lines) = 1
                         /\ \A i \in lines :
                               \E k \in 2..Len(last.prompt[i]) : last.prompt[i][k] = value[1]
                    ELSE lines = {}
           /\ \A i \in DOMAIN last.prompt : ~IsEmptyStr(last.prompt[i])
           /\ build_system_prompt(last.character) = last.prompt

IsFormat == last.op = "format_history"

\* The role a provider family gives a sender
RoleOf(family, sender) ==
    CASE family = "format_history" -> IF sender = "user" THEN "user" ELSE "model"
      [] family = "format_history_for_openai" -> IF sender = "user" THEN "user" ELSE "assistant"
      [] family = "gemini_inline" -> IF sender = "user" THEN "User:" ELSE "Assistant:"

\* C14: the formatted history has the length and the order (oldest first) of
\* the input, and the role of each message depends on its sender alone:
\* sender user gives the user role, sender ai the assistant/model role of the
\* provider.
C14_FormatKeepsOrderAndRoles ==
    IsFormat
        => /\ Len(last.formatted) = Len(last.history)
           /\ \A i \in DOMAIN last.history :
                /\ last.formatted[i].content = last.history[i].content
                /\ last.formatted[i].role = RoleOf(last.family, last.history[i].sender)

\* Three messages user, ai, user with different contents were formatted for
\* the OpenAI family
C14_Witness ==
    /\ IsFormat
    /\ last.family = "format_history_for_openai"
    /\ Len(last.history) = 3
    /\ last.history[1].sender = "user" /\ last.history[2].sender = "ai"
    /\ last.history[1].content # last.history[3].content
    /\ last.formatted[2].role = "assistant"

IsTruncate == last.op = "truncate_history"

\* C15: for a non-empty history and any budget the truncation returns a
\* non-empty contiguous suffix of the input that ends with the original last
\* message; a history whose estimate (characters / 4) is within the budget
\* comes back unchanged, and a history of 60 messages over the budget comes
\* back strictly shorter than 60.
C15_TruncationKeepsNonEmptySuffix ==
    (IsTruncate /\ last.history # <<>>)
        => LET n == Len(last.history)
               m == Len(last.truncated)
           IN  /\ m >= 1 /\ m <= n
               /\ last.truncated = SubSeq(last.history, n - m + 1, n)
               /\ last.truncated[m] = last.history[n]
               /\ SumLen(last.history) \div 4 <= last.max_tokens
                      => last.truncated = last.history
               /\ (n = 60 /\ SumLen(last.history) \div 4 > last.max_tokens) => m < 60

\* 60 alternating messages over the budget came back as the last 45
C15_Witness ==
    /\ IsTruncate
    /\ Len(last.history) = 60
    /\ SumLen(last.history) \div 4 > last.max_tokens
    /\ Len(last.truncated) = 45
    /\ last.truncated[45] = last.history[60]

\* An AI exchange has been carried out: send_message or poll_for_message got
\* past its checks, stored the user message and called the AI service, or the
\* WebSocket handler processed a text message
IsExchange ==
    \/ last.op = "send_message" /\ last.status \notin {403, 404}
    \/ last.op = "poll_for_message" /\ last.status \notin {403, 404} /\ ~last.replayed
    \/ last.op = "websocket" /\ last.processed

\* C16: whenever an AI exchange (send_message, poll_for_message, WebSocket text
\* message) is carried out on a conversation by a user who is not the creator
\* of its character, the character has status approved at that moment.
C16_ExchangeOnlyWithApprovedCharacter ==
    IsExchange
        => \A conv \in conversation :
             \A c \in get_character(character_table, conv.character_id) :
                c.creator_id # last.current_user => c.status = "approved"

\* The requests made on a conversation
ConversationRequests ==
    {"get_conversation_messages", "get_latest_messages", "send_message", "poll_for_message",
     "delete_conversation", "websocket"}

\* The request recorded in l was refused
Refused(l) ==
    IF l.op = "websocket" THEN ~l.processed /\ l.close \in {1008, 1011} ELSE l.status = 403

\* C17: a request on a conversation by a user who is not its owner (read
\* messages, send_message, poll_for_message, latest messages, delete, WebSocket
\* connect) is refused and leaves the conversation and its messages unchanged;
\* messages are added to or removed from a conversation only by requests of
\* its owner.
C17_OnlyOwnerTouchesConversation ==
    [][/\ (/\ last'.op \in ConversationRequests
           /\ conversation # {}
           /\ \A conv \in conversation : conv.user_id # last'.current_user)
              => /\ Refused(last')
                 /\ messages' = messages
                 /\ conversation' = conversation
       /\ (messages' # messages \/ conversation' # conversation)
              => \E conv \in conversation \cup conversation' :
                    conv.user_id = last'.current_user]_vars

\* A send_message of a user who is not the owner was refused with 403 on a
\* conversation that holds messages
C17_Witness ==
    /\ last.op = "send_message"
    /\ last.status = 403
    /\ conversation # {}
    /\ \A conv \in conversation : conv.user_id # last.current_user
    /\ messages # <<>>
    /\ messages = last.pre_messages

IsWebSocket == last.op = "websocket"

\* C18: for a WebSocket text message with non-empty content sent by the
\* authenticated owner of the conversation the server sends, in this order, a
\* message frame echoing the content with sender user, a typing frame with
\* is_typing true, a message frame with sender ai and non-empty content, and a
\* typing frame with is_typing false.
C18_TextMessageFrames ==
    (/\ IsWebSocket
     /\ last.token.kind = "valid"
     /\ \E conv \in conversation : conv.user_id = last.token.sub
     /\ Truthy(Strip(last.content)))
        => \E i, j, k, l \in DOMAIN last.sent :
             /\ i < j /\ j < k /\ k < l
             /\ last.sent[i] = MessageFrame("user", Strip(last.content))
             /\ last.sent[j] = TypingFrame(TRUE)
             /\ last.sent[k].type = "message"
             /\ last.sent[k].sender = "ai"
             /\ Truthy(last.sent[k].content)
             /\ last.sent[l] = TypingFrame(FALSE)

\* C19: a WebSocket connection with a missing or an invalid token is rejected:
\* the connection is not established, and no client message is processed or
\* persisted for it.
C19_UnauthenticatedSocketRejected ==
    (IsWebSocket /\ last.token.kind \in {"missing", "invalid"})
        => /\ ~last.accepted
           /\ ~last.processed
           /\ messages = last.pre_messages

\* C20: for any interleaving of two or more concurrent get_active_provider_name
\* calls that start from an absent or unsupported persisted config, every call
\* returns the same default name without raising an error, and the table ends
\* as exactly one row with id 1 holding that default.
C20_ConcurrentSelfHealing ==
    (/\ \A p \in DOMAIN db_calls : db_calls[p].pc = "done"
     /\ \E p \in DOMAIN db_calls :
           \/ db_calls[p].initial = {}
           \/ \E r \in db_calls[p].initial :
                 r.active_provider_name \notin DOMAIN SUPPORTED_PROVIDERS)
        => /\ \A p \in DOMAIN db_calls :
                /\ db_calls[p].raised = None
                /\ db_calls[p].ret = DefaultToSet(settings)
           /\ Persisted(DefaultToSet(settings))

\* C23: when get_active_provider_name resets the persisted config (no row, or
\* an unsupported name) and settings.DEFAULT_AI_PROVIDER is a supported name,
\* it persists and returns that configured default; the hardcoded "gemini" is
\* chosen only when the configured default is not supported.
C23_ResetPrefersConfiguredDefault ==
    (IsGetActive /\ last.wrote)
        => LET expected == IF settings.DEFAULT_AI_PROVIDER \in DOMAIN SUPPORTED_PROVIDERS
                           THEN settings.DEFAULT_AI_PROVIDER
                           ELSE _DEFAULT_PROVIDER_NAME
           IN  last.ret = expected /\ Persisted(expected)

\* C25: for every provider and every outcome of the network call, also a
\* content that is empty or only whitespace, get_ai_response returns a str
\* that is not empty.
C25_ResponseNeverEmpty ==
    (IsResponse /\ last.raised = None) => ~IsEmptyStr(last.text)

RowsAvailable(table) ==
    \A r \in table : r.active_provider_name \in get_available_providers(settings)

\* C28: a call of get_active_provider_name or of set_active_provider that
\* starts with no row or with the row of a provider whose key is present
\* leaves, when a row exists, the name of a provider whose key is present.
C28_PersistedNameHasCredentials ==
    (/\ last.op \in {"get_active_provider_name", "set_active_provider"}
     /\ RowsAvailable(last.pre_table))
        => RowsAvailable(ai_provider_config)

\* C24: whenever a history that holds a sender=user message is truncated, the
\* window that is kept still holds the most recent sender=user message of the
\* original history.
C24_TruncationKeepsLatestUserMessage ==
    (/\ IsTruncate
     /\ HasUserMessage(last.history)
     /\ Len(last.truncated) < Len(last.history))
        => LET users == {i \in DOMAIN last.history : last.history[i].sender = "user"}
               latest == CHOOSE i \in users : \A j \in users : j <= i
           IN  \E k \in DOMAIN last.truncated : last.truncated[k] = last.history[latest]

\* poll_for_message has run for the owner of the conversation
OwnerPolled == last.op = "poll_for_message" /\ last.status \notin {403, 404}

\* The content has been stored as a user message before
Submitted(rows, content) ==
    \E i \in DOMAIN rows : rows[i].sender = "user" /\ rows[i].content = content

\* C27: a poll_for_message of the owner with a submission that is not yet
\* stored adds exactly one user message with that content followed by exactly
\* one AI message, also when it carries the id of the AI message returned
\* before; a submission that has been processed already adds nothing.
C27_PollStoresEachSubmissionOnce ==
    OwnerPolled
        => IF Submitted(last.pre_messages, last.content)
           THEN messages = last.pre_messages
           ELSE /\ Len(messages) = Len(last.pre_messages) + 2
                /\ SubSeq(messages, 1, Len(last.pre_messages)) = last.pre_messages
                /\ messages[Len(messages) - 1].sender = "user"
                /\ messages[Len(messages) - 1].content = last.content
                /\ messages[Len(messages)].sender = "ai"

IsHandleText == last.op = "handle_text_message"

Registered(s) ==
    /\ websockets[s].pc = "open"
    /\ manager_registered(active_connections, websockets[s].conversation_id, websockets[s].user_id)
    /\ active_connections[websockets[s].conversation_id][websockets[s].user_id] = s

\* C30: for any interleaving of connect and disconnect calls, a connection that
\* is registered for (conversation, user) stays registered until that same
\* connection disconnects; neither the connect nor the disconnect of another
\* connection of the same user to the same conversation unregisters it.
C30_RegistrationOutlivesOtherConnections ==
    [][\A s \in Sockets :
          (Registered(s) /\ websockets'[s].pc = "open") => Registered(s)']_vars

\* Thread t is a get_ai_response that has got its provider or its exception
GetDone(t) == threads[t].kind = "get_ai_response" /\ threads[t].pc = "done"

\* C21: for any interleaving of concurrent get_ai_response and
\* set_active_provider calls, every get_ai_response whose resolved provider has
\* its key obtains an instance of the class registered for the name it
\* resolved (it does not end in the provider-unavailable fallback), and every
\* cache entry maps a name to an instance of that name's class.
C21_ConcurrentCallsGetTheirProvider ==
    /\ \A t \in DOMAIN threads :
          (GetDone(t) /\ Truthy(ProviderApiKey(threads[t].name, settings)))
              => /\ threads[t].raised = None
                 /\ threads[t].provider.cls = SUPPORTED_PROVIDERS[threads[t].name]
    /\ \A n \in DOMAIN provider_instances_cache :
          provider_instances_cache[n].cls = SUPPORTED_PROVIDERS[n]

\* C22: between two invalidations of the cache at most one instance is
\* constructed per provider name, for sequential and for concurrent
\* get_ai_response calls alike.
C22_OneInstancePerName ==
    \A i, j \in DOMAIN constructed :
        constructed[i].name = constructed[j].name => i = j

====
